---- MODULE Spec2Model ----
(***************************************************************************)
(* The event-driven simulation engine of the guitar-hero rhythm game       *)
(* (src/src/main.ts): the State record, the tick physics, the Action       *)
(* classes folded by scan(applyAction, initialState), and the timers and   *)
(* key streams that feed the merge.                                        *)
(*                                                                         *)
(* Numbers.  Tail extents are fractions with denominator TICK_RATE_MS      *)
(* (tailLength = duration / TICK_RATE_MS); the model stores tailStart and  *)
(* tailEnd multiplied by TICK_RATE_MS, so every comparison of the source   *)
(* is made on integers without rounding.  Score arithmetic inside one      *)
(* action is done in doubles, carried exactly (see Double below), and      *)
(* truncated toward zero where the source applies ~~.  Times are whole     *)
(* milliseconds.                                                           *)
(***************************************************************************)
EXTENDS Integers, Sequences, FiniteSets, TLC

VARIABLES
    chart,        \* the rows of csvContents, as parseCSV$ emits them
    s,            \* the State held by scan (main.ts:1061-1063)
    prev,         \* the State the last applied action was applied to
    act,          \* the last applied action [op, column], or pause toggle
    seen,         \* ids seen consumed / dead before s, ids of missed sustains
    subscription, \* the handle of state$.subscribe: unassigned, open, closed
    hooked,       \* restartSubscription has run in this run
    canvas,       \* the note elements on the svg canvas, by note id, in order
    queue,        \* DelayedNotes not yet emitted by delayedGroupNotes$
    dueIn,        \* ms until the head of queue is emitted
    tickDue,      \* ms until interval(TICK_RATE_MS) fires next
    randDue,      \* ms until interval(RANDOMISE_PERIOD_MS) fires next
    waited,       \* ms since the last batch was emitted, or since subscribing
    emitted,      \* the batches delayedGroupNotes$ has emitted: [after, group]
    hardVersion,  \* main's hardVersion argument
    paused,       \* latest value of pauseKey$
    endPending,   \* nextNote$ has completed, endWith(new GameEnd()) is next
    inputs,       \* key events counted against MaxInputs
    restarted,    \* the start button and the file input are enabled again
    run,          \* calls of main so far
    file,         \* latest of csvFileLoad$: <<>> for null, or <<the file>>
    loads,        \* the FileReaders that are reading: [file, hard]
    older,        \* the runs before the latest one that are still subscribed
    overlap       \* events in a row of a page that is not plain (see Plain)

reducerVars == <<s, prev, act, seen>>
subscriberVars == <<subscription, hooked, canvas>>
timerVars == <<queue, dueIn, tickDue, randDue, endPending, waited, emitted>>
configVars == <<chart, hardVersion>>
pageVars == <<restarted, run, file, loads>>
olderVars == <<older, overlap>>
vars == <<chart, s, prev, act, seen, subscription, hooked, canvas, queue,
          dueIn, tickDue, randDue, waited, emitted, hardVersion, paused,
          endPending, inputs, restarted, run, file, loads, older, overlap>>

----------------------------------------------------------------------------
(* Constants, main.ts:56-68 and the literals of the action classes.        *)

TICK_UNIT_INCREMENT == 1
TICK_RATE_MS == 7
POSITION_THRESHOLD == 40
BOTTOM_ROW == 350
BONUS_NOTES_PERCENTAGE == 90
SUSTAIN_THRESHOLD_MS == 1000
BONUS_DECAY_MS == 2000
BONUS_DECAY_STEP == 50
SPECIAL_GAIN == 100
RANDOMISE_PERIOD_MS == 2000
INITIAL_SEED == 3847589
COLUMN_COUNT == 4

Columns == 0 .. (COLUMN_COUNT - 1)

instrumentList ==
    <<"piano", "violin", "flute", "saxophone", "trumpet", "bass-electric">>

\* ~~x for a fraction num/den with den > 0: truncation toward zero.
Trunc(num, den) == IF num >= 0 THEN num \div den ELSE -((-num) \div den)

\* Math.floor(n / 10)
FloorTenth(n) == n \div 10

----------------------------------------------------------------------------
(* The score arithmetic is done in IEEE-754 doubles.  Every double it      *)
(* meets lies within a few units in the last place of a multiple of 1/5,   *)
(* so a double x is carried exactly as the pair (fifths, ulps) with        *)
(*     x = (fifths + ulps * 2^-55) / 5.                                    *)
(* Sums and products by an integer are exact on the pairs; DoubleRound     *)
(* then rounds to the nearest double (53 significant bits, ties to even).  *)

Double(fifths, ulps) == [fifths |-> fifths, ulps |-> ulps]

\* The double of an integer.
DoubleOfInt(n) == Double(5 * n, 0)

DoubleNegate(x) == Double(-x.fifths, -x.ulps)

DoubleIsNegative(x) == x.fifths < 0 \/ (x.fifths = 0 /\ x.ulps < 0)

\* Binades from 2^-3 up that the values of a score can fall in.
MaxBinade == 24

\* For x >= 2^-3: the j with 2^(j-3) <= x < 2^(j-2); -1 for a smaller x >= 0.
DoubleBinade(x) ==
    LET reached == {j \in 0 .. MaxBinade :
                       \/ 8 * x.fifths > 5 * 2^j
                       \/ 8 * x.fifths = 5 * 2^j /\ x.ulps >= 0}
    IN  IF reached = {}
        THEN -1
        ELSE CHOOSE j \in reached : \A k \in reached : k <= j

\* Round to nearest, ties to even, of x >= 0.  In the binade j the doubles
\* are 2^j * 2^-55 apart; fifths * 2^(55-j) = 5 * Q + r places x between
\* the Q-th and the (Q+1)-th of them, and Q is even exactly when r is.
\* Below 2^-3 every value met is a double already.
DoubleRoundMagnitude(x) ==
    LET j == DoubleBinade(x)
    IN  IF j < 0
        THEN x
        ELSE LET w == 2^j
                 r == ((x.fifths % 5) * 2^((55 - j) % 4)) % 5
                 z == r * w + x.ulps
                 q == z \div (5 * w)
                 rem == z - q * (5 * w)
                 R == IF 2 * rem < 5 * w THEN q
                      ELSE IF 2 * rem > 5 * w THEN q + 1
                      ELSE IF (r + q) % 2 = 0 THEN q
                      ELSE q + 1
             IN  Double(x.fifths, (5 * R - r) * w)

DoubleRound(x) ==
    IF DoubleIsNegative(x)
    THEN DoubleNegate(DoubleRoundMagnitude(DoubleNegate(x)))
    ELSE DoubleRoundMagnitude(x)

\* x + y, x - y and x * k (k an integer) as the machine computes them.
DoublePlus(x, y) == DoubleRound(Double(x.fifths + y.fifths, x.ulps + y.ulps))

DoubleMinus(x, y) == DoubleRound(Double(x.fifths - y.fifths, x.ulps - y.ulps))

DoubleTimes(x, k) == DoubleRound(Double(k * x.fifths, k * x.ulps))

\* The literal 0.2: the double nearest to 1/5 is 0.4 * 2^-55 above it.
DoubleFifth == Double(1, 2)

\* ~~x of a double: truncation toward zero.
DoubleTrunc(x) ==
    LET OfMagnitude(y) ==
            IF y.fifths > 0 /\ y.fifths % 5 = 0 /\ y.ulps < 0
            THEN y.fifths \div 5 - 1
            ELSE y.fifths \div 5
    IN  IF DoubleIsNegative(x)
        THEN -OfMagnitude(DoubleNegate(x))
        ELSE OfMagnitude(x)

\* 1 + 0.2 * k
ScoreStep(k) == DoublePlus(DoubleOfInt(1), DoubleTimes(DoubleFifth, k))

----------------------------------------------------------------------------
(* RNG (./util.ts, not part of the sources at hand): a seed-advancing hash *)
(* and a scale into [0,1).  The generator is a linear congruential one     *)
(* over RNG_M seeds; scale(seed) is the fraction seed / RNG_M, and the     *)
(* model only ever needs ~~(scale(seed) * k).                              *)

RNG_M == 16
RNG_A == 5
RNG_C == 3

RNG_hash(seed) == (RNG_A * seed + RNG_C) % RNG_M

\* ~~(RNG.scale(seed) * k)
RNG_scaleTimes(seed, k) == Trunc((seed % RNG_M) * k, RNG_M)

----------------------------------------------------------------------------
(* Notes, tails and the State.                                             *)

\* tail: undefined
NoTail == [defined |-> FALSE, tailStart |-> 0, tailEnd |-> 0, dead |-> FALSE]

HasTail(note) == note.tail.defined

initialState ==
    [gameEnd |-> FALSE,
     allNotesProcessed |-> FALSE,
     bonusActive |-> 0,
     tickInterval |-> 0,
     hash |-> RNG_hash(INITIAL_SEED),
     noteCount |-> 0,
     scoreGained |-> 0,
     currentNotes |-> <<>>,
     RIPNotes |-> <<>>,
     playableNotes |-> <<>>]

\* colourSelector: pitch % 4, the remainder of JavaScript, which takes the
\* sign of pitch.
colourSelector(pitch) ==
    IF pitch >= 0
    THEN pitch % COLUMN_COUNT
    ELSE -((-pitch) % COLUMN_COUNT)

\* A row of the chart as the scan of parseCSV$ emits it (position 0, no tail,
\* no special yet: NextNote assigns them).  instrumentName, velocity and
\* pitch are the fields parts[1], parseInt(parts[2]) and parseInt(parts[3]);
\* start and end are the doubles parseFloat(parts[4]) * 1000 and
\* parseFloat(parts[5]) * 1000, and the charts played are of rows for which
\* these come out as whole milliseconds.
ChartNote(id, visual, instrumentName, velocity, pitch, start, end) ==
    [id |-> id,
     special |-> FALSE,
     visual |-> visual,
     position |-> 0,
     column |-> colourSelector(pitch),
     instrumentName |-> instrumentName,
     velocity |-> velocity,
     pitch |-> pitch,
     start |-> start,
     end |-> end,
     tail |-> NoTail]

----------------------------------------------------------------------------
(* tick: one physics step.                                                 *)

\* Mutant of updateTail: the leading edge of the tail does not follow.
updateTail_FixedStart(positionIncrement, bottomRow, tail, visual) ==
    [defined |-> TRUE,
     tailStart |-> tail.tailStart,
     tailEnd |-> IF visual
                 THEN tail.tailEnd + positionIncrement * TICK_RATE_MS
                 ELSE bottomRow * TICK_RATE_MS,
     dead |-> IF visual THEN FALSE ELSE tail.dead]

\* Mutant of updateTail: the physics step clears dead on every tail.
updateTail_ClearsDead(positionIncrement, bottomRow, tail, visual) ==
    [defined |-> TRUE,
     tailStart |-> tail.tailStart + positionIncrement * TICK_RATE_MS,
     tailEnd |-> IF visual
                 THEN tail.tailEnd + positionIncrement * TICK_RATE_MS
                 ELSE bottomRow * TICK_RATE_MS,
     dead |-> FALSE]

updateTail(positionIncrement, bottomRow, tail, visual) ==
    [defined |-> TRUE,
     tailStart |-> tail.tailStart + positionIncrement * TICK_RATE_MS,
     tailEnd |-> IF visual
                 THEN tail.tailEnd + positionIncrement * TICK_RATE_MS
                 ELSE bottomRow * TICK_RATE_MS,
     dead |-> IF visual THEN FALSE ELSE tail.dead]

\* TickSound [updatedNote | null, playableNote | null]: each component is a
\* sequence of at most one note, <<>> standing for null.
TickSound(updatedNote, playableNote) ==
    [updatedNote |-> updatedNote, playableNote |-> playableNote]

\* Mutant of updateNotePosition: a missed note without a tail is played.
updateNotePosition_MissPlays(positionIncrement, bottomRow, note) ==
    LET newY == note.position + positionIncrement
        rowMs == bottomRow * TICK_RATE_MS
    IN  IF HasTail(note)
        THEN LET updatedTail ==
                     updateTail(positionIncrement, bottomRow, note.tail, note.visual)
                 updatedNote ==
                     [note EXCEPT !.position = newY, !.tail = updatedTail]
             IN  IF note.visual
                 THEN IF updatedTail.tailEnd = rowMs
                      THEN IF updatedTail.tailStart < rowMs
                           THEN TickSound(
                                  <<[updatedNote EXCEPT
                                       !.visual = FALSE,
                                       !.tail = [updatedTail EXCEPT !.dead = TRUE]]>>,
                                  <<>>)
                           ELSE TickSound(<<>>, <<>>)
                      ELSE IF updatedTail.tailStart < rowMs
                           THEN TickSound(<<updatedNote>>, <<>>)
                           ELSE TickSound(<<>>, <<>>)
                 ELSE IF newY = bottomRow
                      THEN TickSound(<<updatedNote>>, <<updatedNote>>)
                      ELSE IF updatedTail.tailStart < rowMs
                           THEN TickSound(<<updatedNote>>, <<>>)
                           ELSE TickSound(<<>>, <<>>)
        ELSE IF newY <= bottomRow
             THEN IF newY < bottomRow
                  THEN TickSound(<<[note EXCEPT !.position = newY]>>, <<>>)
                  ELSE TickSound(<<>>, <<[note EXCEPT !.position = newY]>>)
             ELSE TickSound(<<>>, <<>>)

\* Mutant of updateNotePosition: a missed sustain note is played as its head
\* gets to the row.
updateNotePosition_MissedTailPlays(positionIncrement, bottomRow, note) ==
    LET newY == note.position + positionIncrement
        rowMs == bottomRow * TICK_RATE_MS
    IN  IF HasTail(note)
        THEN LET updatedTail ==
                     updateTail(positionIncrement, bottomRow, note.tail, note.visual)
                 updatedNote ==
                     [note EXCEPT !.position = newY, !.tail = updatedTail]
             IN  IF note.visual
                 THEN IF updatedTail.tailEnd = rowMs
                      THEN IF updatedTail.tailStart < rowMs
                           THEN TickSound(
                                  <<[updatedNote EXCEPT
                                       !.visual = FALSE,
                                       !.tail = [updatedTail EXCEPT !.dead = TRUE]]>>,
                                  <<updatedNote>>)
                           ELSE TickSound(<<>>, <<>>)
                      ELSE IF updatedTail.tailStart < rowMs
                           THEN TickSound(<<updatedNote>>, <<>>)
                           ELSE TickSound(<<>>, <<>>)
                 ELSE IF newY = bottomRow
                      THEN TickSound(<<updatedNote>>, <<updatedNote>>)
                      ELSE IF updatedTail.tailStart < rowMs
                           THEN TickSound(<<updatedNote>>, <<>>)
                           ELSE TickSound(<<>>, <<>>)
        ELSE IF newY <= bottomRow
             THEN IF note.visual
                  THEN IF newY < bottomRow
                       THEN TickSound(<<[note EXCEPT !.position = newY]>>, <<>>)
                       ELSE TickSound(<<>>, <<>>)
                  ELSE IF newY < bottomRow
                       THEN TickSound(<<[note EXCEPT !.position = newY]>>, <<>>)
                       ELSE TickSound(<<>>, <<[note EXCEPT !.position = newY]>>)
             ELSE TickSound(<<>>, <<>>)

updateNotePosition(positionIncrement, bottomRow, note) ==
    LET newY == note.position + positionIncrement
        rowMs == bottomRow * TICK_RATE_MS
    IN  IF HasTail(note)
        THEN LET updatedTail ==
                     updateTail(positionIncrement, bottomRow, note.tail, note.visual)
                 updatedNote ==
                     [note EXCEPT !.position = newY, !.tail = updatedTail]
             IN  IF note.visual
                 THEN IF updatedTail.tailEnd = rowMs
                      THEN IF updatedTail.tailStart < rowMs
                           THEN TickSound(
                                  <<[updatedNote EXCEPT
                                       !.visual = FALSE,
                                       !.tail = [updatedTail EXCEPT !.dead = TRUE]]>>,
                                  <<>>)
                           ELSE TickSound(<<>>, <<>>)
                      ELSE IF updatedTail.tailStart < rowMs
                           THEN TickSound(<<updatedNote>>, <<>>)
                           ELSE TickSound(<<>>, <<>>)
                 ELSE IF newY = bottomRow
                      THEN TickSound(<<updatedNote>>, <<updatedNote>>)
                      ELSE IF updatedTail.tailStart < rowMs
                           THEN TickSound(<<updatedNote>>, <<>>)
                           ELSE TickSound(<<>>, <<>>)
        ELSE IF newY <= bottomRow
             THEN IF note.visual
                  THEN IF newY < bottomRow
                       THEN TickSound(<<[note EXCEPT !.position = newY]>>, <<>>)
                       ELSE TickSound(<<>>, <<>>)
                  ELSE IF newY < bottomRow
                       THEN TickSound(<<[note EXCEPT !.position = newY]>>, <<>>)
                       ELSE TickSound(<<>>, <<[note EXCEPT !.position = newY]>>)
             ELSE TickSound(<<>>, <<>>)

updatePositionForGame(note) ==
    updateNotePosition(TICK_UNIT_INCREMENT, BOTTOM_ROW, note)

\* The reduce of tick over s.currentNotes, left to right.
RECURSIVE AccNoteSound(_)
AccNoteSound(notes) ==
    IF notes = <<>>
    THEN [newCurrentNotes |-> <<>>, newPlayableNotes |-> <<>>]
    ELSE LET n == Len(notes)
             acc == AccNoteSound(SubSeq(notes, 1, n - 1))
             r == updatePositionForGame(notes[n])
         IN  [newCurrentNotes |-> acc.newCurrentNotes \o r.updatedNote,
              newPlayableNotes |-> acc.newPlayableNotes \o r.playableNote]

\* Mutant of filterCheck: the combo is reset by a visual note on the bottom
\* row, not by one an increment above it.
filterCheck_OnTheRow(note) == note.position = BOTTOM_ROW /\ note.visual

filterCheck(note) == note.position + 1 = BOTTOM_ROW /\ note.visual

\* Mutant of tick: the game ends as soon as the chart is exhausted, notes
\* still falling or not.
tick_EndsOnExhaustedChart(st) ==
    LET acc == AccNoteSound(st.currentNotes)
        newCurrentNotes == acc.newCurrentNotes
        newPlayableNotes == acc.newPlayableNotes
    IN  [st EXCEPT
           !.gameEnd = st.allNotesProcessed,
           !.currentNotes = newCurrentNotes,
           !.noteCount = IF Len(SelectSeq(newCurrentNotes, filterCheck)) = 0
                         THEN st.noteCount
                         ELSE st.bonusActive,
           !.RIPNotes = st.currentNotes,
           !.playableNotes = newPlayableNotes]

\* Mutant of tick: a miss resets the combo to 0, bonus pool or not.
tick_MissResetsToZero(st) ==
    LET acc == AccNoteSound(st.currentNotes)
        newCurrentNotes == acc.newCurrentNotes
        newPlayableNotes == acc.newPlayableNotes
    IN  [st EXCEPT
           !.gameEnd = st.allNotesProcessed
                       /\ Len(newCurrentNotes) = 0
                       /\ Len(newPlayableNotes) = 0
                       /\ Len(st.RIPNotes) = 0,
           !.currentNotes = newCurrentNotes,
           !.noteCount = IF Len(SelectSeq(newCurrentNotes, filterCheck)) = 0
                         THEN st.noteCount
                         ELSE 0,
           !.RIPNotes = st.currentNotes,
           !.playableNotes = newPlayableNotes]

\* Mutant of tick: RIPNotes holds the notes the step has dropped only.
tick_RIPOnlyDropped(st) ==
    LET acc == AccNoteSound(st.currentNotes)
        newCurrentNotes == acc.newCurrentNotes
        newPlayableNotes == acc.newPlayableNotes
        Dropped(note) == updatePositionForGame(note).updatedNote = <<>>
    IN  [st EXCEPT
           !.gameEnd = st.allNotesProcessed
                       /\ Len(newCurrentNotes) = 0
                       /\ Len(newPlayableNotes) = 0
                       /\ Len(st.RIPNotes) = 0,
           !.currentNotes = newCurrentNotes,
           !.noteCount = IF Len(SelectSeq(newCurrentNotes, filterCheck)) = 0
                         THEN st.noteCount
                         ELSE st.bonusActive,
           !.RIPNotes = SelectSeq(st.currentNotes, Dropped),
           !.playableNotes = newPlayableNotes]

tick(st) ==
    LET acc == AccNoteSound(st.currentNotes)
        newCurrentNotes == acc.newCurrentNotes
        newPlayableNotes == acc.newPlayableNotes
    IN  [st EXCEPT
           !.gameEnd = st.allNotesProcessed
                       /\ Len(newCurrentNotes) = 0
                       /\ Len(newPlayableNotes) = 0
                       /\ Len(st.RIPNotes) = 0,
           !.currentNotes = newCurrentNotes,
           !.noteCount = IF Len(SelectSeq(newCurrentNotes, filterCheck)) = 0
                         THEN st.noteCount
                         ELSE st.bonusActive,
           !.RIPNotes = st.currentNotes,
           !.playableNotes = newPlayableNotes]

----------------------------------------------------------------------------
(* The Action classes: each apply is a function State -> State.            *)

\* Mutant of ReleasedTail: any tail in the column is released.
ReleasedTail_AnyTail(column, note) ==
    HasTail(note) /\ note.column = column

\* The test shared by the three passes of ButtonRelease.apply.
ReleasedTail(column, note) ==
    /\ HasTail(note)
    /\ note.column = column
    /\ ~note.visual
    /\ ~note.tail.dead

\* The first reduce of ButtonRelease.apply after hits matching notes:
\* acc -= 1 + 0.2 * Math.floor(s.noteCount / 10) for each.
RECURSIVE ReleaseAccumulator(_, _)
ReleaseAccumulator(st, hits) ==
    IF hits = 0
    THEN DoubleOfInt(st.scoreGained)
    ELSE DoubleMinus(ReleaseAccumulator(st, hits - 1),
                     ScoreStep(FloorTenth(st.noteCount)))

ButtonRelease(column, st) ==
    LET Hit(note) == ReleasedTail(column, note)
        hits == Len(SelectSeq(st.currentNotes, Hit))
        scoreGainedModified == ReleaseAccumulator(st, hits)
        noteCountModification ==
            IF hits > 0 THEN st.bonusActive ELSE st.noteCount
        currentNotes ==
            [i \in 1 .. Len(st.currentNotes) |->
                IF Hit(st.currentNotes[i])
                THEN [st.currentNotes[i] EXCEPT !.tail.dead = TRUE]
                ELSE st.currentNotes[i]]
    IN  [st EXCEPT
           !.currentNotes = currentNotes,
           !.noteCount = noteCountModification,
           !.scoreGained = DoubleTrunc(scoreGainedModified),
           !.RIPNotes = st.currentNotes]

\* Mutant of InHitWindow: the press reaches a note of any column.
InHitWindow_AnyColumn(column, note) ==
    /\ note.position >= BOTTOM_ROW - POSITION_THRESHOLD
    /\ note.position < BOTTOM_ROW
    /\ note.visual

\* The hit test of ButtonClick.apply.
InHitWindow(column, note) ==
    /\ note.position >= BOTTOM_ROW - POSITION_THRESHOLD
    /\ note.position < BOTTOM_ROW
    /\ note.column = column
    /\ note.visual

\* Mutant of ClickAccumulator: a special note scores and counts as a normal
\* note does, on top of its bonus.
RECURSIVE ClickAccumulator_SpecialScores(_, _, _)
ClickAccumulator_SpecialScores(column, st, notes) ==
    IF notes = <<>>
    THEN [triggered |-> FALSE,
          scoreGained |-> DoubleOfInt(st.scoreGained),
          notePressed |-> st.noteCount,
          specialGained |-> st.bonusActive]
    ELSE LET n == Len(notes)
             acc == ClickAccumulator_SpecialScores(column, st,
                                                   SubSeq(notes, 1, n - 1))
             note == notes[n]
         IN  IF InHitWindow(column, note)
             THEN [acc EXCEPT
                     !.triggered = TRUE,
                     !.specialGained = IF note.special
                                       THEN acc.specialGained + SPECIAL_GAIN
                                       ELSE acc.specialGained,
                     !.notePressed = acc.notePressed + 1,
                     !.scoreGained =
                         DoublePlus(acc.scoreGained,
                                    ScoreStep(Trunc(acc.notePressed, 10)))]
             ELSE acc

\* The reduce of ButtonClick.apply; scoreGained is a double.
RECURSIVE ClickAccumulator(_, _, _)
ClickAccumulator(column, st, notes) ==
    IF notes = <<>>
    THEN [triggered |-> FALSE,
          scoreGained |-> DoubleOfInt(st.scoreGained),
          notePressed |-> st.noteCount,
          specialGained |-> st.bonusActive]
    ELSE LET n == Len(notes)
             acc == ClickAccumulator(column, st, SubSeq(notes, 1, n - 1))
             note == notes[n]
         IN  IF InHitWindow(column, note)
             THEN IF note.special
                  THEN [acc EXCEPT
                          !.triggered = TRUE,
                          !.specialGained = acc.specialGained + SPECIAL_GAIN,
                          !.notePressed = acc.notePressed + SPECIAL_GAIN]
                  ELSE [acc EXCEPT
                          !.triggered = TRUE,
                          !.notePressed = acc.notePressed + 1,
                          !.scoreGained =
                              DoublePlus(acc.scoreGained,
                                         ScoreStep(Trunc(acc.notePressed, 10)))]
             ELSE acc

\* The synthetic note of a wrong press: only these five fields are set.
wrongNote(st) ==
    [instrumentName |->
         instrumentList[RNG_scaleTimes(st.hash, Len(instrumentList)) + 1],
     velocity |-> RNG_scaleTimes(st.hash, 90),
     pitch |-> RNG_scaleTimes(st.hash, 70),
     start |-> 0,
     end |-> RNG_scaleTimes(st.hash, 500)]

\* Mutant of PlayedTail: a wrong press is not held back by a tail.
PlayedTail_Never(column, note) == FALSE

\* The filter of checkWrongPress.
PlayedTail(column, note) ==
    note.column = column /\ ~note.visual /\ HasTail(note)

\* Mutant of ButtonClick: the press recomputes gameEnd as tick does.
ButtonClick_EndsGame(column, st) ==
    LET triggered == ClickAccumulator(column, st, st.currentNotes)
        currentNotes ==
            [i \in 1 .. Len(st.currentNotes) |->
                IF InHitWindow(column, st.currentNotes[i])
                THEN [st.currentNotes[i] EXCEPT !.visual = FALSE]
                ELSE st.currentNotes[i]]
        Played(note) == PlayedTail(column, note)
        checkWrongPress ==
            ~triggered.triggered /\ Len(SelectSeq(currentNotes, Played)) = 0
    IN  [st EXCEPT
           !.gameEnd = st.allNotesProcessed /\ Len(currentNotes) = 0,
           !.bonusActive = triggered.specialGained,
           !.currentNotes = currentNotes,
           !.noteCount = IF checkWrongPress
                         THEN st.bonusActive
                         ELSE triggered.notePressed,
           !.hash = RNG_hash(st.hash),
           !.RIPNotes = st.currentNotes,
           !.scoreGained = DoubleTrunc(triggered.scoreGained),
           !.playableNotes = IF checkWrongPress
                             THEN Append(st.playableNotes, wrongNote(st))
                             ELSE st.playableNotes]

ButtonClick(column, st) ==
    LET triggered == ClickAccumulator(column, st, st.currentNotes)
        currentNotes ==
            [i \in 1 .. Len(st.currentNotes) |->
                IF InHitWindow(column, st.currentNotes[i])
                THEN [st.currentNotes[i] EXCEPT !.visual = FALSE]
                ELSE st.currentNotes[i]]
        Played(note) == PlayedTail(column, note)
        checkWrongPress ==
            ~triggered.triggered /\ Len(SelectSeq(currentNotes, Played)) = 0
    IN  [st EXCEPT
           !.bonusActive = triggered.specialGained,
           !.currentNotes = currentNotes,
           !.noteCount = IF checkWrongPress
                         THEN st.bonusActive
                         ELSE triggered.notePressed,
           !.hash = RNG_hash(st.hash),
           !.RIPNotes = st.currentNotes,
           !.scoreGained = DoubleTrunc(triggered.scoreGained),
           !.playableNotes = IF checkWrongPress
                             THEN Append(st.playableNotes, wrongNote(st))
                             ELSE st.playableNotes]

\* ~~(2000 / Constants.TICK_RATE_MS)
DecayTicks == Trunc(BONUS_DECAY_MS, TICK_RATE_MS)

\* Mutant of TickGame: the decay counter runs whether or not a bonus is
\* active.
TickGame_CountsWithoutBonus(st) ==
    LET bonusFlag ==
            /\ st.bonusActive > 0
            /\ st.tickInterval # 0
            /\ st.tickInterval % DecayTicks = 0
        updatedStat == tick(st)
    IN  [updatedStat EXCEPT
           !.tickInterval =
               IF st.tickInterval = 0 \/ st.tickInterval % DecayTicks # 0
               THEN st.tickInterval + 1
               ELSE 0,
           !.bonusActive = IF bonusFlag
                           THEN st.bonusActive - BONUS_DECAY_STEP
                           ELSE st.bonusActive,
           !.noteCount = IF bonusFlag
                         THEN updatedStat.noteCount - BONUS_DECAY_STEP
                         ELSE updatedStat.noteCount]

\* Mutant of TickGame: the decay drains the bonus pool but not the combo.
TickGame_KeepsCombo(st) ==
    LET bonusFlag ==
            /\ st.bonusActive > 0
            /\ st.tickInterval # 0
            /\ st.tickInterval % DecayTicks = 0
        updatedStat == tick(st)
    IN  [updatedStat EXCEPT
           !.tickInterval =
               IF st.bonusActive > 0
                  /\ (st.tickInterval = 0 \/ st.tickInterval % DecayTicks # 0)
               THEN st.tickInterval + 1
               ELSE 0,
           !.bonusActive = IF bonusFlag
                           THEN st.bonusActive - BONUS_DECAY_STEP
                           ELSE st.bonusActive]

TickGame(st) ==
    LET bonusFlag ==
            /\ st.bonusActive > 0
            /\ st.tickInterval # 0
            /\ st.tickInterval % DecayTicks = 0
        updatedStat == tick(st)
    IN  [updatedStat EXCEPT
           !.tickInterval =
               IF st.bonusActive > 0
                  /\ (st.tickInterval = 0 \/ st.tickInterval % DecayTicks # 0)
               THEN st.tickInterval + 1
               ELSE 0,
           !.bonusActive = IF bonusFlag
                           THEN st.bonusActive - BONUS_DECAY_STEP
                           ELSE st.bonusActive,
           !.noteCount = IF bonusFlag
                         THEN updatedStat.noteCount - BONUS_DECAY_STEP
                         ELSE updatedStat.noteCount]

\* Mutant of GameEnd: the end of the chart ends the game at once.
GameEnd_EndsAtOnce(st) ==
    [tick([st EXCEPT !.allNotesProcessed = TRUE]) EXCEPT !.gameEnd = TRUE]

\* Mutant of GameEnd: the chart is marked as exhausted, but the step does
\* not end the game.
GameEnd_LeavesGameEnd(st) ==
    [tick([st EXCEPT !.allNotesProcessed = TRUE]) EXCEPT !.gameEnd = st.gameEnd]

\* Mutant of GameEnd: the physics step runs but the chart is not marked
\* as exhausted.
GameEnd_WithoutFlag(st) == tick(st)

GameEnd(st) == tick([st EXCEPT !.allNotesProcessed = TRUE])

\* Mutant of notesWithTail: every long note gets a tail, background notes
\* included.
notesWithTail_AnyLong(st, note) ==
    LET duration == note.end - note.start
    IN  IF duration > SUSTAIN_THRESHOLD_MS
        THEN [note EXCEPT
                !.tail = [defined |-> TRUE,
                          tailStart |-> note.position * TICK_RATE_MS - duration,
                          tailEnd |-> note.position * TICK_RATE_MS,
                          dead |-> FALSE]]
        ELSE [note EXCEPT
                !.special = RNG_scaleTimes(st.hash, 100) >= BONUS_NOTES_PERCENTAGE,
                !.tail = NoTail]

\* The map of NextNote.apply over one note of the batch.
notesWithTail(st, note) ==
    LET duration == note.end - note.start
    IN  IF note.visual /\ duration > SUSTAIN_THRESHOLD_MS
        THEN [note EXCEPT
                !.tail = [defined |-> TRUE,
                          tailStart |-> note.position * TICK_RATE_MS - duration,
                          tailEnd |-> note.position * TICK_RATE_MS,
                          dead |-> FALSE]]
        ELSE [note EXCEPT
                !.special = RNG_scaleTimes(st.hash, 100) >= BONUS_NOTES_PERCENTAGE,
                !.tail = NoTail]

\* Mutant of NextNote: the batch joins currentNotes after the physics step.
NextNote_SpawnsAfterTick(currentNotes, st) ==
    LET ticked == tick([st EXCEPT !.hash = RNG_hash(st.hash)])
    IN  [ticked EXCEPT
           !.currentNotes =
               ticked.currentNotes
               \o [i \in 1 .. Len(currentNotes) |->
                      notesWithTail(st, currentNotes[i])]]

\* Mutant of NextNote: the seed advances again for a batch of several notes.
NextNote_HashPerNote(currentNotes, st) ==
    tick([st EXCEPT
            !.hash = IF Len(currentNotes) > 1
                     THEN RNG_hash(RNG_hash(st.hash))
                     ELSE RNG_hash(st.hash),
            !.currentNotes =
                st.currentNotes
                \o [i \in 1 .. Len(currentNotes) |->
                       notesWithTail(st, currentNotes[i])]])

NextNote(currentNotes, st) ==
    tick([st EXCEPT
            !.hash = RNG_hash(st.hash),
            !.currentNotes =
                st.currentNotes
                \o [i \in 1 .. Len(currentNotes) |->
                       notesWithTail(st, currentNotes[i])]])

\* Mutant of RandomiseNotes: every note is moved, consumed ones too.
RandomiseNotes_AllNotes(st) ==
    [st EXCEPT
       !.hash = RNG_hash(st.hash),
       !.currentNotes =
           [i \in 1 .. Len(st.currentNotes) |->
               [st.currentNotes[i] EXCEPT
                  !.column = RNG_scaleTimes(RNG_hash(st.hash + (i - 1)),
                                            COLUMN_COUNT)]]]

\* Mutant of RandomiseNotes: a moved note is shown again.
RandomiseNotes_Revives(st) ==
    [st EXCEPT
       !.hash = RNG_hash(st.hash),
       !.currentNotes =
           [i \in 1 .. Len(st.currentNotes) |->
               [st.currentNotes[i] EXCEPT
                  !.visual = TRUE,
                  !.column = RNG_scaleTimes(RNG_hash(st.hash + (i - 1)),
                                            COLUMN_COUNT)]]]

RandomiseNotes(st) ==
    [st EXCEPT
       !.hash = RNG_hash(st.hash),
       !.currentNotes =
           [i \in 1 .. Len(st.currentNotes) |->
               IF st.currentNotes[i].visual
               THEN [st.currentNotes[i] EXCEPT
                       !.column = RNG_scaleTimes(RNG_hash(st.hash + (i - 1)),
                                                 COLUMN_COUNT)]
               ELSE st.currentNotes[i]]]

----------------------------------------------------------------------------
(* The chart scheduler: scheduleVisualNotes$ and delayedGroupNotes$.       *)

\* groupBy(note.start) then toArray per group: the groups come out in the
\* order in which their start time first appears.
RECURSIVE scheduleVisualNotes(_)
scheduleVisualNotes(notes) ==
    IF notes = <<>>
    THEN <<>>
    ELSE LET start == Head(notes).start
             Same(note) == note.start = start
             Other(note) == note.start # start
         IN  <<SelectSeq(notes, Same)>>
             \o scheduleVisualNotes(SelectSeq(notes, Other))

\* Mutant of delayedGroupNotes: every delay is counted from the first group.
RECURSIVE delayedGroupNotes_FromFirst(_, _)
delayedGroupNotes_FromFirst(groups, initialStart) ==
    IF groups = <<>>
    THEN <<>>
    ELSE LET currentNote == Head(groups)
         IN  <<[start |-> currentNote[1].start,
                delayIt |-> IF initialStart = <<>>
                            THEN 0
                            ELSE currentNote[1].start - initialStart[1],
                group |-> currentNote]>>
             \o delayedGroupNotes_FromFirst(
                    Tail(groups),
                    IF initialStart = <<>>
                    THEN <<currentNote[1].start>>
                    ELSE initialStart)

\* The scan of delayedGroupNotes$; initialStart is <<>> for null, else <<t>>.
RECURSIVE delayedGroupNotes(_, _)
delayedGroupNotes(groups, initialStart) ==
    IF groups = <<>>
    THEN <<>>
    ELSE LET currentNote == Head(groups)
         IN  <<[start |-> currentNote[1].start,
                delayIt |-> IF initialStart = <<>>
                            THEN 0
                            ELSE currentNote[1].start - initialStart[1],
                group |-> currentNote]>>
             \o delayedGroupNotes(Tail(groups), <<currentNote[1].start>>)

----------------------------------------------------------------------------
(* Bounds and the charts played.                                           *)

\* Timer and key events that are followed, after a mousedown on the start
\* button, while several runs are subscribed or a file is being read.
MaxOverlap == 2

\* Key events fed to the game.
MaxInputs == 2

\* No rows.
ChartEmpty == <<>>

\* One sustain note of 1500 ms in column 1.
ChartSustain == <<ChartNote(1, TRUE, "piano", 64, 61, 0, 1500)>>

\* A short note and a background note; 100 ticks later a sustain note in
\* column 1; 100 ticks later a short note in the same column; and, after all
\* of them have left the screen, a last short note.
ChartFourGroups ==
    <<ChartNote(1, TRUE, "piano", 64, 60, 0, 500),
      ChartNote(2, FALSE, "violin", 80, 62, 0, 300),
      ChartNote(3, TRUE, "piano", 64, 61, 700, 2200),
      ChartNote(4, TRUE, "piano", 64, 61, 1400, 1600),
      ChartNote(5, TRUE, "piano", 64, 61, 4900, 5100)>>

\* Ten short notes at once in column 0, a background note 5 ticks behind
\* them and one more short note in column 0 another 5 ticks behind.
ChartCombo ==
    [i \in 1 .. 10 |-> ChartNote(i, TRUE, "piano", 64, 60, 0, 200)]
    \o <<ChartNote(11, FALSE, "flute", 30, 62, 35, 235),
         ChartNote(12, TRUE, "piano", 64, 60, 70, 270)>>

\* A long background note, then one tick apart two short notes in column 0, the
\* first of which is spawned special, and 260 ticks after the start a short
\* note in column 1.
ChartBonus ==
    <<ChartNote(1, FALSE, "piano", 64, 62, 0, 1500),
      ChartNote(2, TRUE, "piano", 64, 60, 7, 207),
      ChartNote(3, TRUE, "piano", 64, 60, 14, 214),
      ChartNote(4, TRUE, "piano", 64, 61, 1820, 2020)>>

\* Ten short notes and a sustain note of 1500 ms, all at once in column 0.
ChartChord ==
    [i \in 1 .. 10 |-> ChartNote(i, TRUE, "piano", 64, 60, 0, 200)]
    \o <<ChartNote(11, TRUE, "piano", 64, 60, 0, 1500)>>

\* Three short notes whose rows are not in the order of their starts: the
\* second batch starts 700 ms before the first.  The pitch of the last row
\* is negative, and so is its column: no key plays it.
ChartUnordered ==
    <<ChartNote(1, TRUE, "piano", 64, 60, 700, 900),
      ChartNote(2, TRUE, "piano", 64, 61, 0, 200),
      ChartNote(3, TRUE, "piano", 64, -6, 1400, 1600)>>

\* Ten sustain notes of 1500 ms, all at once in column 0.
ChartSustainChord == [i \in 1 .. 10 |-> ChartNote(i, TRUE, "piano", 64, 60, 0, 1500)]

Scenarios ==
    {[chart |-> ChartEmpty, hardVersion |-> FALSE],
     [chart |-> ChartBonus, hardVersion |-> FALSE],
     [chart |-> ChartSustain, hardVersion |-> FALSE],
     [chart |-> ChartSustain, hardVersion |-> TRUE],
     [chart |-> ChartFourGroups, hardVersion |-> FALSE],
     [chart |-> ChartFourGroups, hardVersion |-> TRUE],
     [chart |-> ChartCombo, hardVersion |-> FALSE],
     [chart |-> ChartChord, hardVersion |-> FALSE],
     [chart |-> ChartSustainChord, hardVersion |-> FALSE],
     [chart |-> ChartUnordered, hardVersion |-> FALSE]}

----------------------------------------------------------------------------
(* The driver: timers, key streams, merge and scan.                        *)

\* The chart the page fetches when it is loaded, startGame's contents: main
\* runs on it when no file was chosen, or when the file cannot be read.
contents == ChartSustain

\* The state once main has subscribed to state$ for the scenario sc, with fed
\* of the key events already spent.  A chart other than contents came from a
\* file.
InitRun(sc, fed) ==
    /\ chart = sc.chart
    /\ s = initialState
    /\ prev = initialState
    /\ act = [op |-> "Init"]
    /\ seen = [consumed |-> {}, dead |-> {}, missed |-> {}]
    /\ subscription = (IF sc.chart = <<>> THEN "unassigned" ELSE "open")
    /\ hooked = FALSE
    /\ canvas = <<>>
    /\ waited = 0
    /\ emitted = <<>>
    /\ restarted = FALSE
    /\ run = 1
    /\ file = (IF sc.chart = contents THEN <<>> ELSE <<sc.chart>>)
    /\ loads = <<>>
    /\ older = <<>>
    /\ overlap = 0
    /\ queue = delayedGroupNotes(scheduleVisualNotes(sc.chart), <<>>)
    /\ dueIn = 0
    /\ tickDue = TICK_RATE_MS
    /\ randDue = RANDOMISE_PERIOD_MS
    /\ hardVersion = sc.hardVersion
    /\ paused = FALSE
    /\ endPending = (sc.chart = <<>>)
    /\ inputs = fed

Init == \E sc \in Scenarios : InitRun(sc, 0)

\* The ids of the notes of st that are no longer visual.
ConsumedIds(st) ==
    {st.currentNotes[i].id : i \in {j \in 1 .. Len(st.currentNotes) :
                                       ~st.currentNotes[j].visual}}

\* The ids of the notes of st whose tail is dead.
DeadIds(st) ==
    {st.currentNotes[i].id : i \in {j \in 1 .. Len(st.currentNotes) :
                                       /\ HasTail(st.currentNotes[j])
                                       /\ st.currentNotes[j].tail.dead}}

\* The ids of the sustain notes of st, still visual, whose head the action
\* takes onto the bottom row (the actions that run the physics step do).
MissedIds(st, action) ==
    IF action.op \in {"Tick", "Spawn", "EndOfChart"}
    THEN {st.currentNotes[i].id : i \in {j \in 1 .. Len(st.currentNotes) :
                                             /\ HasTail(st.currentNotes[j])
                                             /\ st.currentNotes[j].visual
                                             /\ st.currentNotes[j].position
                                                    + TICK_UNIT_INCREMENT
                                                = BOTTOM_ROW}}
    ELSE {}

\* The ids of a sequence of notes.
NoteIds(notes) == {notes[i].id : i \in 1 .. Len(notes)}

\* svg.removeChild(document.getElementById(id)): the first element group
\* with that id leaves the canvas, if there is one.
removeChild(svg, id) ==
    LET found == {i \in 1 .. Len(svg) : svg[i] = id}
    IN  IF found = {}
        THEN svg
        ELSE LET k == CHOOSE i \in found : \A j \in found : i <= j
             IN  SubSeq(svg, 1, k - 1) \o SubSeq(svg, k + 1, Len(svg))

\* The forEach of removeNotes over RIPNotes.
RECURSIVE removeEach(_, _)
removeEach(notes, svg) ==
    IF notes = <<>>
    THEN svg
    ELSE removeEach(Tail(notes), removeChild(svg, Head(notes).id))

removeNotes(st, svg) == removeEach(st.RIPNotes, svg)

\* render draws a note that is visual, or consumed with a tail.
IsDrawn(note) == note.visual \/ HasTail(note)

\* The element groups render appends, one per drawn note of currentNotes,
\* named by the id of the note.
DrawnIds(st) ==
    LET drawn == SelectSeq(st.currentNotes, IsDrawn)
    IN  [i \in 1 .. Len(drawn) |-> drawn[i].id]

\* render: the cleanup, then the elements of the notes of currentNotes.
render(st, svg) == removeNotes(st, svg) \o DrawnIds(st)

\* The subscription of state$ is live until it is unsubscribed.
Running == subscription # "closed"

\* The subscriber of state$ on the state next: it unsubscribes on gameEnd.
\* An empty chart emits its GameEnd inside state$.subscribe, before the
\* handle is assigned: unsubscribe() throws in the subscriber, and whether
\* that closes the subscription is up to the library's error handling.
AfterEmission(next) ==
    IF next.gameEnd
    THEN IF subscription = "unassigned" THEN {"open", "closed"} ELSE {"closed"}
    ELSE {"open"}

\* delay(delayIt): the timer of a batch; a negative delay (a batch whose
\* start lies before that of the batch ahead of it) is due at once.
delay(delayIt) == IF delayIt < 0 THEN 0 ELSE delayIt

\* The run of the latest call of main, as a record of its own.
ThisRun ==
    [chart |-> chart, s |-> s, hooked |-> hooked, queue |-> queue,
     dueIn |-> dueIn, tickDue |-> tickDue, randDue |-> randDue,
     hardVersion |-> hardVersion, paused |-> paused,
     endPending |-> endPending]

\* The timers of a subscribed run.
Dues(r) ==
    {r.tickDue}
    \cup (IF r.queue # <<>> THEN {r.dueIn} ELSE {})
    \cup (IF r.hardVersion THEN {r.randDue} ELSE {})

\* The timers of every subscribed run of the page.
ActiveDues ==
    (IF Running THEN Dues(ThisRun) ELSE {})
    \cup UNION {Dues(older[i]) : i \in DOMAIN older}

\* Timers of one run that fall due together fire in the order they were
\* set: the interval of tick$ and then that of randomiseNotes$, both set when
\* main subscribes, come before the timer of a batch, set when the batch
\* ahead of it was delivered.  Timers of two runs are in no such order: main
\* is called again at any moment.
IntervalDue(r, d) == r.tickDue = d \/ (r.hardVersion /\ r.randDue = d)

\* Time until the earliest timer fires.
MinDue == CHOOSE d \in ActiveDues : \A e \in ActiveDues : d <= e

\* No run is between its last batch and the GameEnd that endWith appends in
\* the same turn of the event loop.
NoEndPending ==
    IF endPending THEN FALSE ELSE \A i \in DOMAIN older : ~older[i].endPending

\* d ms pass for the timers of a run.
Elapse(r, d) ==
    [r EXCEPT !.tickDue = @ - d,
              !.dueIn = IF r.queue # <<>> THEN @ - d ELSE @,
              !.randDue = IF r.hardVersion THEN @ - d ELSE @]

\* d ms pass for the timers of the runs of a sequence.
ElapseAll(runs, d) == [i \in DOMAIN runs |-> Elapse(runs[i], d)]

\* The page with the earlier runs o, the reads l and the pause p of the
\* latest run is plain: it has one run, reads no file and, once main has
\* been called again, is not paused.
Plain(o, l, p) ==
    IF o = <<>> /\ l = <<>> THEN (IF run = 1 THEN TRUE ELSE ~p) ELSE FALSE

\* A timer or key event is followed: always while the page is plain, and
\* up to MaxOverlap times in a row while it is not.
WithinOverlap ==
    IF Plain(older, loads, paused) THEN TRUE ELSE overlap < MaxOverlap

\* The events in that row after one more of them, and after an event of
\* another kind.
Counted(o, l, p) == IF Plain(o, l, p) THEN 0 ELSE overlap + 1
Uncounted(o, l, p) == IF Plain(o, l, p) THEN 0 ELSE overlap

\* d ms pass for the earlier runs.
OlderElapses(d) ==
    /\ older' = ElapseAll(older, d)
    /\ overlap' = Counted(older, loads, paused)

\* d ms pass for the timers of the latest run while another run's timer
\* fires.
ThisRunElapses(d) ==
    IF Running
    THEN /\ tickDue' = tickDue - d
         /\ dueIn' = IF queue # <<>> THEN dueIn - d ELSE dueIn
         /\ randDue' = IF hardVersion THEN randDue - d ELSE randDue
         /\ waited' = IF queue # <<>> THEN waited + d ELSE waited
    ELSE UNCHANGED <<tickDue, dueIn, randDue, waited>>

\* scan(applyAction, ...) applies an action that passed filterWhenNotPaused,
\* and the subscriber draws the state on the canvas svg.
ApplyOn(svg, next, action) ==
    /\ s' = next
    /\ prev' = s
    /\ act' = action
    /\ seen' = [consumed |-> seen.consumed \cup ConsumedIds(s),
                dead |-> seen.dead \cup DeadIds(s),
                missed |-> seen.missed \cup MissedIds(s, action)]
    /\ subscription' \in AfterEmission(next)
    /\ hooked' = TRUE
    /\ canvas' = render(next, svg)

Apply(next, action) == ApplyOn(canvas, next, action)

\* filterWhenNotPaused: the emission is dropped while paused.
ApplyUnlessPaused(next, action) ==
    IF paused
    THEN UNCHANGED <<reducerVars, subscriberVars>>
    ELSE Apply(next, action)

TickEvent ==
    /\ Running /\ NoEndPending /\ WithinOverlap
    /\ tickDue = MinDue
    /\ tickDue' = TICK_RATE_MS
    /\ dueIn' = IF queue # <<>> THEN dueIn - MinDue ELSE dueIn
    /\ randDue' = IF hardVersion THEN randDue - MinDue ELSE randDue
    /\ waited' = IF queue # <<>> THEN waited + MinDue ELSE waited
    /\ ApplyUnlessPaused(TickGame(s), [op |-> "Tick"])
    /\ OlderElapses(MinDue)
    /\ UNCHANGED <<queue, endPending, emitted, configVars, paused, inputs,
                   pageVars>>

NextNoteEvent ==
    /\ Running /\ NoEndPending /\ WithinOverlap
    /\ queue # <<>>
    /\ dueIn = MinDue
    /\ ~IntervalDue(ThisRun, MinDue)
    /\ queue' = Tail(queue)
    /\ dueIn' = IF Tail(queue) # <<>>
                THEN delay(Head(Tail(queue)).delayIt)
                ELSE 0
    /\ endPending' = (Tail(queue) = <<>>)
    /\ tickDue' = tickDue - MinDue
    /\ randDue' = IF hardVersion THEN randDue - MinDue ELSE randDue
    /\ waited' = 0
    /\ emitted' = Append(emitted, [after |-> waited + MinDue,
                                   group |-> Head(queue).group])
    /\ ApplyUnlessPaused(NextNote(Head(queue).group, s), [op |-> "Spawn"])
    /\ OlderElapses(MinDue)
    /\ UNCHANGED <<configVars, paused, inputs, pageVars>>

\* endWith(new GameEnd()) sits after the pause filter: it is never dropped.
EndOfChartEvent ==
    /\ Running /\ endPending
    /\ endPending' = FALSE
    /\ Apply(GameEnd(s), [op |-> "EndOfChart"])
    /\ UNCHANGED <<queue, dueIn, tickDue, randDue, waited, emitted, configVars,
                   paused, inputs, pageVars, olderVars>>

RandomiseEvent ==
    /\ Running /\ NoEndPending /\ WithinOverlap
    /\ hardVersion
    /\ randDue = MinDue
    /\ tickDue # MinDue
    /\ randDue' = RANDOMISE_PERIOD_MS
    /\ tickDue' = tickDue - MinDue
    /\ dueIn' = IF queue # <<>> THEN dueIn - MinDue ELSE dueIn
    /\ waited' = IF queue # <<>> THEN waited + MinDue ELSE waited
    /\ ApplyUnlessPaused(RandomiseNotes(s), [op |-> "Randomize"])
    /\ OlderElapses(MinDue)
    /\ UNCHANGED <<queue, endPending, emitted, configVars, paused, inputs,
                   pageVars>>

\* What the subscriber of an earlier run does on the state next of that
\* run r: it draws it, registers its restart handler, and unsubscribes on
\* gameEnd, after which the run is heard of no more.
OlderEmits(r, next, svg) ==
    [older |-> IF next.gameEnd
               THEN <<>>
               ELSE <<[r EXCEPT !.s = next, !.hooked = TRUE]>>,
     svg |-> render(next, svg)]

\* The apply of the action a key event is mapped to.
KeyAction(st, action) ==
    IF action.op = "Press"
    THEN ButtonClick(action.column, st)
    ELSE ButtonRelease(action.column, st)

\* The earlier runs heard so far and the canvas, with what the next run
\* made of the event.
HeardAlso(heard, emits) ==
    [older |-> heard.older \o emits.older, svg |-> emits.svg]

\* The run r hears a key event after the runs before it: it applies the
\* action unless it is paused.
HeardBy(heard, r, action) ==
    IF r.paused
    THEN [older |-> Append(heard.older, r), svg |-> heard.svg]
    ELSE HeardAlso(heard, OlderEmits(r, KeyAction(r.s, action), heard.svg))

\* A key event reaches the streams of the runs in the order the runs
\* subscribed.
RECURSIVE HearKey(_, _, _)
HearKey(runs, action, heard) ==
    IF runs = <<>>
    THEN heard
    ELSE HearKey(Tail(runs), action, HeardBy(heard, Head(runs), action))

OlderHearsKey(action) ==
    HearKey(older, action, [older |-> <<>>, svg |-> canvas])

\* A key event with the action it maps to: applied by the earlier runs, if
\* there are any (heard is what comes of that), and then by the latest run,
\* each unless it is paused or unsubscribed.
KeyEvent(action, heard) ==
    /\ NoEndPending /\ WithinOverlap
    /\ IF Running /\ ~paused
       THEN TRUE
       ELSE \E i \in DOMAIN older : ~older[i].paused
    /\ inputs < MaxInputs
    /\ inputs' = inputs + 1
    /\ older' = heard.older
    /\ IF Running /\ ~paused
       THEN ApplyOn(heard.svg, KeyAction(s, action), action)
       ELSE /\ canvas' = heard.svg
            /\ prev' = s
            /\ act' = [op |-> "Older", of |-> action]
            /\ UNCHANGED <<s, seen, subscription, hooked>>
    /\ overlap' = Counted(heard.older, loads, paused)
    /\ UNCHANGED <<timerVars, configVars, paused, pageVars>>

PressEvent(column) ==
    KeyEvent([op |-> "Press", column |-> column],
             OlderHearsKey([op |-> "Press", column |-> column]))

ReleaseEvent(column) ==
    KeyEvent([op |-> "Release", column |-> column],
             OlderHearsKey([op |-> "Release", column |-> column]))

\* The Space key: the pauseKey$ of every subscribed run toggles.  No action
\* goes to the scan; act notes the toggle.
PauseKeyEvent ==
    /\ NoEndPending /\ WithinOverlap
    /\ IF Running THEN TRUE ELSE older # <<>>
    /\ inputs < MaxInputs
    /\ inputs' = inputs + 1
    /\ paused' = IF Running THEN ~paused ELSE paused
    /\ older' = [i \in DOMAIN older |->
                    [older[i] EXCEPT !.paused = ~older[i].paused]]
    /\ overlap' = Counted(older, loads, IF Running THEN ~paused ELSE paused)
    /\ act' = IF Running
              THEN [op |-> IF paused THEN "Resume" ELSE "Pause"]
              ELSE [op |-> "Older", of |-> [op |-> "Space"]]
    /\ prev' = s
    /\ UNCHANGED <<s, seen, subscriberVars, timerVars, configVars, pageVars>>

Next ==
    \/ TickEvent
    \/ NextNoteEvent
    \/ EndOfChartEvent
    \/ RandomiseEvent
    \/ \E column \in Columns : PressEvent(column)
    \/ \E column \in Columns : ReleaseEvent(column)

Spec == Init /\ [][Next]_vars

----------------------------------------------------------------------------
(* The same driver with the pause key in play, on a chart whose second     *)
(* batch falls due right after the first note has left the screen.         *)

ChartGap ==
    <<ChartNote(1, TRUE, "piano", 64, 60, 0, 500),
      ChartNote(2, TRUE, "piano", 64, 61, 2460, 2960)>>

InitPause ==
    /\ chart = ChartGap
    /\ s = initialState
    /\ prev = initialState
    /\ act = [op |-> "Init"]
    /\ seen = [consumed |-> {}, dead |-> {}, missed |-> {}]
    /\ subscription = "open"
    /\ hooked = FALSE
    /\ canvas = <<>>
    /\ waited = 0
    /\ emitted = <<>>
    /\ restarted = FALSE
    /\ run = 1
    /\ file = <<ChartGap>>
    /\ loads = <<>>
    /\ older = <<>>
    /\ overlap = 0
    /\ queue = delayedGroupNotes(scheduleVisualNotes(ChartGap), <<>>)
    /\ dueIn = 0
    /\ tickDue = TICK_RATE_MS
    /\ randDue = RANDOMISE_PERIOD_MS
    /\ hardVersion = FALSE
    /\ paused = FALSE
    /\ endPending = FALSE
    /\ inputs = 0

NextPause ==
    \/ TickEvent
    \/ NextNoteEvent
    \/ EndOfChartEvent
    \/ PauseKeyEvent
    \/ \E column \in Columns : PressEvent(column)
    \/ \E column \in Columns : ReleaseEvent(column)

SpecPause == InitPause /\ [][NextPause]_vars

----------------------------------------------------------------------------
(* The page around main: the restart button and the start button.  The     *)
(* mousedown handler that unsubscribes a run is registered by the          *)
(* subscriber of state$, on every state it receives; the page's own click  *)
(* handler of the restart button re-enables the start button, whose        *)
(* mousedown calls main again, whether or not the run before is still      *)
(* subscribed.  A run still subscribed then goes on beside the new one:    *)
(* its timers fire, it hears the keys and it draws on the same canvas.     *)
(* With a file chosen in the file input the mousedown only starts a        *)
(* FileReader, and main is called when the reader is done.                 *)

\* Calls of main in one session.
MaxRuns == 2

\* Key events that are followed in a session with the buttons: before main
\* is called again, and after each such call.
MaxFirstRunInputs == 0
MaxRestartInputs == 1

\* The files the player chooses between, each known by its chart.
Files == {ChartSustain}

\* The ms after a timer event at which main is called.
Offsets == {0, 3}

InitRestart ==
    \E sc \in Scenarios :
        /\ sc.chart \in {ChartEmpty, ChartSustain}
        /\ InitRun(sc, MaxInputs - MaxFirstRunInputs)

\* The canvas once the restart handlers of the runs have removed their notes.
RECURSIVE RemoveNotesOf(_, _)
RemoveNotesOf(runs, svg) ==
    IF runs = <<>>
    THEN svg
    ELSE RemoveNotesOf(Tail(runs), IF Head(runs).hooked
                                   THEN removeNotes(Head(runs).s, svg)
                                   ELSE svg)

\* restartSubscription has not run in the run r.
Unhooked(r) == ~r.hooked

\* mousedown on the restart button: the handlers that restartSubscription
\* has registered run, those of the earlier run first.  Each unsubscribes
\* its run and removes the notes of RIPNotes of the state it was registered
\* for.  Every element of the canvas is of a note in RIPNotes of the latest
\* state of a subscribed run, so that the handlers of the latest states
\* leave nothing for those of earlier states, or of runs unsubscribed
\* before, to remove.
RestartPressEvent ==
    /\ NoEndPending
    /\ subscription' = IF hooked THEN "closed" ELSE subscription
    /\ older' = SelectSeq(older, Unhooked)
    /\ canvas' = IF hooked
                 THEN removeNotes(s, RemoveNotesOf(older, canvas))
                 ELSE RemoveNotesOf(older, canvas)
    /\ act' = [op |-> "RestartPress"]
    /\ prev' = s
    /\ overlap' = Uncounted(SelectSeq(older, Unhooked), loads, paused)
    /\ UNCHANGED <<s, seen, hooked, timerVars, configVars, paused, inputs,
                   pageVars>>

\* click on the restart button: prepareRestart enables the start button and
\* the file input.  Nothing reaches the scan.
RestartClickEvent ==
    /\ NoEndPending
    /\ restarted' = TRUE
    /\ UNCHANGED <<reducerVars, subscriberVars, timerVars, configVars, paused,
                   inputs, run, file, loads, olderVars>>

\* change of the file input, which is enabled: csvFileLoad$ emits the file
\* chosen, a file being known here by the chart it holds.
FileChangeEvent ==
    /\ restarted
    /\ NoEndPending
    /\ \E chosen \in Files :
           /\ file # <<chosen>>
           /\ file' = <<chosen>>
    /\ UNCHANGED <<reducerVars, subscriberVars, timerVars, configVars, paused,
                   inputs, restarted, run, loads, olderVars>>

\* main is called at any instant, and the timers it sets are due from that
\* instant: Instants are the ms, since a timer last fired or main was last
\* called, at which the calls followed here are made, each before the next
\* timer fires.
Instants ==
    IF ActiveDues = {}
    THEN {0}
    ELSE {d \in Offsets : IF d = 0 THEN TRUE ELSE d < MinDue}

\* main(csvContents, samples, hardVersion), called after ms since a timer
\* last fired: it subscribes a new run.  The runs before it that are still
\* subscribed live on beside it.  The key events followed start anew.
main(csvContents, isHard, after) ==
    /\ run' = run + 1
    /\ older' = ElapseAll(IF Running THEN Append(older, ThisRun) ELSE older,
                          after)
    /\ chart' = csvContents
    /\ queue' = delayedGroupNotes(scheduleVisualNotes(csvContents), <<>>)
    /\ subscription' = (IF csvContents = <<>> THEN "unassigned" ELSE "open")
    /\ endPending' = (csvContents = <<>>)
    /\ hardVersion' = isHard
    /\ s' = initialState
    /\ prev' = s
    /\ seen' = [consumed |-> {}, dead |-> {}, missed |-> {}]
    /\ hooked' = FALSE
    /\ UNCHANGED canvas
    /\ dueIn' = 0
    /\ tickDue' = TICK_RATE_MS
    /\ randDue' = RANDOMISE_PERIOD_MS
    /\ waited' = 0
    /\ emitted' = <<>>
    /\ paused' = FALSE
    /\ inputs' = MaxInputs - MaxRestartInputs

\* mousedown on the start button, enabled again by prepareRestart: the
\* handler reads the difficulty chosen on the page and disables the button
\* and the file input.  With no file chosen it calls main on contents; with
\* a file it starts a FileReader, and main runs when the reader is done.
StartEvent ==
    /\ restarted
    /\ NoEndPending
    /\ run + Len(loads) < MaxRuns
    /\ restarted' = FALSE
    /\ overlap' = 0
    /\ UNCHANGED file
    /\ \E selectedDifficulty \in BOOLEAN :
           IF file = <<>>
           THEN /\ \E after \in Instants :
                       main(contents, selectedDifficulty, after)
                /\ act' = [op |-> "Start"]
                /\ UNCHANGED loads
           ELSE /\ loads' = Append(loads, [file |-> file[1],
                                           hard |-> selectedDifficulty])
                /\ act' = [op |-> "Read"]
                /\ prev' = s
                /\ UNCHANGED <<s, seen, subscriberVars, timerVars, configVars,
                               paused, inputs, run, older>>

\* The sequence without its element i.
WithoutLoad(i) == SubSeq(loads, 1, i - 1) \o SubSeq(loads, i + 1, Len(loads))

\* reader.onload: main runs on the text of the file, at the difficulty read
\* at the mousedown.
FileLoadEvent ==
    /\ NoEndPending
    /\ \E i \in DOMAIN loads :
           /\ \E after \in Instants :
                  main(loads[i].file, loads[i].hard, after)
           /\ loads' = WithoutLoad(i)
           /\ overlap' = Uncounted(IF Running THEN <<ThisRun>> ELSE older,
                                   WithoutLoad(i), FALSE)
    /\ act' = [op |-> "Load"]
    /\ UNCHANGED <<restarted, file>>

\* reader.onerror: main runs on contents instead.
FileErrorEvent ==
    /\ NoEndPending
    /\ \E i \in DOMAIN loads :
           /\ \E after \in Instants : main(contents, loads[i].hard, after)
           /\ loads' = WithoutLoad(i)
           /\ overlap' = Uncounted(IF Running THEN <<ThisRun>> ELSE older,
                                   WithoutLoad(i), FALSE)
    /\ act' = [op |-> "LoadError"]
    /\ UNCHANGED <<restarted, file>>

\* A timer of the earlier run i fires: the step every such event shares.
\* r1 is the run with its timers reset, next the state the action the timer
\* emits gives when applied to the state of the run, op the name of the
\* action.
OlderTimerEvent(i, r1, next, op) ==
    /\ LET heard == IF r1.paused
                    THEN [older |-> <<r1>>, svg |-> canvas]
                    ELSE OlderEmits(r1, next, canvas)
       IN  /\ older' = ElapseAll(SubSeq(older, 1, i - 1), MinDue)
                       \o heard.older
                       \o ElapseAll(SubSeq(older, i + 1, Len(older)), MinDue)
           /\ canvas' = heard.svg
           /\ overlap' = Counted(SubSeq(older, 1, i - 1) \o heard.older
                                     \o SubSeq(older, i + 1, Len(older)),
                                 loads, paused)
    /\ ThisRunElapses(MinDue)
    /\ act' = [op |-> "Older", of |-> [op |-> op]]
    /\ prev' = s
    /\ UNCHANGED <<s, seen, subscription, hooked, queue, endPending, emitted,
                   configVars, paused, inputs, pageVars>>

OlderTickEvent ==
    /\ NoEndPending
    /\ overlap < MaxOverlap
    /\ \E i \in DOMAIN older :
           /\ older[i].tickDue = MinDue
           /\ OlderTimerEvent(i, [Elapse(older[i], MinDue) EXCEPT
                                    !.tickDue = TICK_RATE_MS],
                              TickGame(older[i].s), "Tick")

OlderNextNoteEvent ==
    /\ NoEndPending
    /\ overlap < MaxOverlap
    /\ \E i \in DOMAIN older :
           /\ older[i].queue # <<>>
           /\ older[i].dueIn = MinDue
           /\ ~IntervalDue(older[i], MinDue)
           /\ OlderTimerEvent(i, [Elapse(older[i], MinDue) EXCEPT
                                    !.queue = Tail(older[i].queue),
                                    !.dueIn =
                                        IF Tail(older[i].queue) # <<>>
                                        THEN delay(Head(Tail(older[i].queue))
                                                       .delayIt)
                                        ELSE 0,
                                    !.endPending =
                                        (Tail(older[i].queue) = <<>>)],
                              NextNote(Head(older[i].queue).group,
                                       older[i].s),
                              "Spawn")

OlderEndOfChartEvent ==
    \E i \in DOMAIN older :
        /\ older[i].endPending
        /\ LET heard == OlderEmits([older[i] EXCEPT !.endPending = FALSE],
                                   GameEnd(older[i].s), canvas)
           IN  /\ older' = SubSeq(older, 1, i - 1) \o heard.older
                           \o SubSeq(older, i + 1, Len(older))
               /\ canvas' = heard.svg
               /\ overlap' = Uncounted(SubSeq(older, 1, i - 1) \o heard.older
                                           \o SubSeq(older, i + 1, Len(older)),
                                       loads, paused)
        /\ act' = [op |-> "Older", of |-> [op |-> "EndOfChart"]]
        /\ prev' = s
        /\ UNCHANGED <<s, seen, subscription, hooked, timerVars, configVars,
                       paused, inputs, pageVars>>

OlderRandomiseEvent ==
    /\ NoEndPending
    /\ overlap < MaxOverlap
    /\ \E i \in DOMAIN older :
           /\ older[i].hardVersion
           /\ older[i].randDue = MinDue
           /\ older[i].tickDue # MinDue
           /\ OlderTimerEvent(i, [Elapse(older[i], MinDue) EXCEPT
                                    !.randDue = RANDOMISE_PERIOD_MS],
                              RandomiseNotes(older[i].s), "Randomize")

NextRestart ==
    \/ TickEvent
    \/ NextNoteEvent
    \/ EndOfChartEvent
    \/ RandomiseEvent
    \/ RestartPressEvent
    \/ RestartClickEvent
    \/ StartEvent
    \/ OlderTickEvent
    \/ OlderNextNoteEvent
    \/ OlderEndOfChartEvent
    \/ OlderRandomiseEvent
    \/ FileChangeEvent
    \/ FileLoadEvent
    \/ FileErrorEvent
    \/ \E column \in Columns : PressEvent(column)
    \/ \E column \in Columns : ReleaseEvent(column)
    \/ PauseKeyEvent

SpecRestart == InitRestart /\ [][NextRestart]_vars

----------------------------------------------------------------------------
(* The driver with its interval timers taken as fair: interval(7) and      *)
(* interval(2000) keep firing while the run is subscribed.  Played on the  *)
(* empty chart, on the one-sustain chart in the hard version and on the    *)
(* chart of two short notes.                                               *)

InitLive ==
    \/ Init /\ chart = ChartEmpty
    \/ Init /\ chart = ChartSustain /\ hardVersion
    \/ InitPause

SpecLive ==
    InitLive /\ [][Next]_vars /\ WF_vars(TickEvent) /\ WF_vars(RandomiseEvent)

----------------------------------------------------------------------------
(* Properties.  prev, act and s describe the last step of the scan: act    *)
(* was applied to prev and gave s.                                         *)

Applied(op) == act.op = op

Pressed(column) == act.op = "Press" /\ act.column = column

Released(column) == act.op = "Release" /\ act.column = column

\* The set of indices of a sequence of notes.
Indices(notes) == 1 .. Len(notes)

\* notes is front followed by at least one more note, each at position 0.
ExtendsBySpawned(notes, front) ==
    /\ Len(notes) > Len(front)
    /\ SubSeq(notes, 1, Len(front)) = front
    /\ \A i \in (Len(front) + 1) .. Len(notes) : notes[i].position = 0

\* C1 as stated: after every action, RIPNotes of the resulting state equals
\* currentNotes of the state the action was applied to.
C1_RIPNotesIsPreviousCurrentNotes ==
    act.op \in {"Tick", "Press", "Release", "Spawn", "EndOfChart", "Randomize"}
        => s.RIPNotes = prev.currentNotes

\* C1 amended: Tick, Press, Release and EndOfChart set RIPNotes to the
\* currentNotes of the state they were applied to; Spawn sets it to those
\* notes followed by the spawned batch (still at position 0); Randomize
\* leaves RIPNotes as it was.
C1_RIPNotesPerAction ==
    /\ act.op \in {"Tick", "Press", "Release", "EndOfChart"}
           => s.RIPNotes = prev.currentNotes
    /\ Applied("Spawn") => ExtendsBySpawned(s.RIPNotes, prev.currentNotes)
    /\ Applied("Randomize") => s.RIPNotes = prev.RIPNotes

\* A Spawn onto live notes: RIPNotes holds the old notes and the new batch.
C1_Witness ==
    /\ Applied("Spawn")
    /\ prev.currentNotes # <<>>
    /\ Len(s.RIPNotes) > Len(prev.currentNotes)

\* C2: in every state with gameEnd, the chart is exhausted and no note is
\* live or pending removal.
C2_GameEndMeansNothingLeft ==
    s.gameEnd =>
        /\ s.allNotesProcessed
        /\ s.currentNotes = <<>>
        /\ s.RIPNotes = <<>>

\* The game has ended after notes were played and removed.
C2_Witness ==
    /\ s.gameEnd
    /\ Applied("Tick")
    /\ s.scoreGained > 0

\* C3: no state has gameEnd before allNotesProcessed, and the state that
\* EndOfChart gives when applied to a state with empty currentNotes has
\* gameEnd.
C3_EndOfChartOnEmptyEndsGame ==
    /\ ~s.allNotesProcessed => ~s.gameEnd
    /\ Applied("EndOfChart") /\ prev.currentNotes = <<>> => s.gameEnd

\* EndOfChart is applied to a state with no note, live or pending removal,
\* before the chart was marked as exhausted, and ends the game.
C3_Witness ==
    /\ Applied("EndOfChart")
    /\ prev.currentNotes = <<>>
    /\ prev.RIPNotes = <<>>
    /\ ~prev.allNotesProcessed
    /\ s.gameEnd

\* The counters C4 speaks of.
SameCounters(a, b) ==
    /\ a.noteCount = b.noteCount
    /\ a.bonusActive = b.bonusActive
    /\ a.tickInterval = b.tickInterval

TickOnIdle == Applied("Tick") /\ prev.currentNotes = <<>> /\ ~prev.allNotesProcessed

\* C4 as stated: Tick on a state with no live notes and the chart not yet
\* exhausted leaves the score and all three counters unchanged.
C4_IdleTickChangesNothing ==
    TickOnIdle => s.scoreGained = prev.scoreGained /\ SameCounters(s, prev)

\* C4 amended: such a Tick leaves scoreGained unchanged, and leaves
\* noteCount, bonusActive and tickInterval unchanged when bonusActive = 0;
\* with bonusActive > 0 the decay counter tickInterval changes.
C4_IdleTickChangesNothingWithoutBonus ==
    TickOnIdle =>
        /\ s.scoreGained = prev.scoreGained
        /\ prev.bonusActive = 0 => SameCounters(s, prev)
        /\ prev.bonusActive > 0 => s.tickInterval # prev.tickInterval

\* An idle Tick between two batches, after a note has been scored.
C4_Witness ==
    /\ TickOnIdle
    /\ prev.bonusActive = 0
    /\ prev.scoreGained > 0
    /\ prev.noteCount > 0

\* Column c of state st holds a visual note inside the hit window.
VisualInWindow(st, c) ==
    \E i \in Indices(st.currentNotes) :
        LET note == st.currentNotes[i]
        IN  /\ note.visual
            /\ note.column = c
            /\ note.position >= BOTTOM_ROW - POSITION_THRESHOLD
            /\ note.position < BOTTOM_ROW

\* Column c of state st holds a sustain that is being played: consumed and
\* not dead.
LiveTailIn(st, c) ==
    \E i \in Indices(st.currentNotes) :
        LET note == st.currentNotes[i]
        IN  note.tail.defined /\ note.column = c /\ ~note.visual /\ ~note.tail.dead

\* Column c of state st holds a consumed sustain note, dead or not.
ConsumedTailIn(st, c) ==
    \E i \in Indices(st.currentNotes) :
        LET note == st.currentNotes[i]
        IN  note.tail.defined /\ note.column = c /\ ~note.visual

\* A synthetic wrong-press note carries the five playback fields only.
IsSynthetic(note) ==
    DOMAIN note = {"instrumentName", "velocity", "pitch", "start", "end"}

\* after is before with exactly one synthetic note appended.
OneSyntheticAppended(after, before) ==
    /\ Len(after) = Len(before) + 1
    /\ SubSeq(after, 1, Len(before)) = before
    /\ IsSynthetic(after[Len(after)])

\* C5: Press(c) on a column with no visual note in the hit window and no
\* live tail appends exactly one synthetic note to playableNotes and sets
\* noteCount to the current bonusActive.
C5_WrongPressMakesSyntheticNote ==
    \A c \in Columns :
        Pressed(c) /\ ~VisualInWindow(prev, c) /\ ~LiveTailIn(prev, c)
            => /\ OneSyntheticAppended(s.playableNotes, prev.playableNotes)
               /\ s.noteCount = prev.bonusActive

\* The visual notes of column c inside the hit window, split by special.
HitIndices(st, c, special) ==
    {i \in Indices(st.currentNotes) :
        LET note == st.currentNotes[i]
        IN  /\ note.visual
            /\ note.column = c
            /\ note.position >= BOTTOM_ROW - POSITION_THRESHOLD
            /\ note.position < BOTTOM_ROW
            /\ note.special = special}

\* C6: Press(c) on a column holding a consumed sustain note adds no
\* synthetic note to playableNotes and does not reset noteCount to
\* bonusActive: noteCount only grows by the notes hit.
C6_NoWrongPressOverTail ==
    \A c \in Columns :
        Pressed(c) /\ ConsumedTailIn(prev, c)
            => /\ s.playableNotes = prev.playableNotes
               /\ s.noteCount = prev.noteCount
                                + Cardinality(HitIndices(prev, c, FALSE))
                                + SPECIAL_GAIN * Cardinality(HitIndices(prev, c, TRUE))

\* A Press over a consumed sustain that also hits a visual note, with a
\* combo that differs from the bonus pool.
C6_Witness ==
    \E c \in Columns :
        /\ Pressed(c)
        /\ ConsumedTailIn(prev, c)
        /\ VisualInWindow(prev, c)
        /\ prev.noteCount # prev.bonusActive
        /\ s.noteCount > prev.noteCount

\* C7: Press(c) with exactly one visual, non-special note of column c in the
\* hit window raises scoreGained by exactly 1 + 0.2 * floor(noteCount / 10)
\* (compared in fifths), raises noteCount by 1 and consumes the note.
C7_SingleHitScoresByMultiplier ==
    \A c \in Columns :
        Pressed(c)
        /\ Cardinality(HitIndices(prev, c, FALSE)) = 1
        /\ HitIndices(prev, c, TRUE) = {}
            => /\ 5 * (s.scoreGained - prev.scoreGained)
                      = 5 + (prev.noteCount \div 10)
               /\ s.noteCount = prev.noteCount + 1
               /\ \A i \in HitIndices(prev, c, FALSE) :
                      /\ s.currentNotes[i].id = prev.currentNotes[i].id
                      /\ ~s.currentNotes[i].visual

\* C8: Randomize keeps the number and order of notes and every field of
\* every note except column; consumed notes keep their column and every
\* column stays one of the four lanes.
C8_RandomizeOnlyMovesVisualNotes ==
    Applied("Randomize") =>
        /\ Len(s.currentNotes) = Len(prev.currentNotes)
        /\ \A i \in Indices(prev.currentNotes) :
               LET before == prev.currentNotes[i]
                   after == s.currentNotes[i]
               IN  /\ [after EXCEPT !.column = before.column] = before
                   /\ ~before.visual => after.column = before.column
                   /\ after.column \in Columns

\* A Randomize that moved a visual note while a consumed note was live.
C8_Witness ==
    /\ Applied("Randomize")
    /\ \E i \in Indices(prev.currentNotes) :
           /\ prev.currentNotes[i].visual
           /\ s.currentNotes[i].column # prev.currentNotes[i].column
    /\ \E j \in Indices(prev.currentNotes) : ~prev.currentNotes[j].visual

\* tailEnd - tailStart of a note, in ms (the extents are stored times
\* TICK_RATE_MS).
TailLengthMs(note) == note.tail.tailEnd - note.tail.tailStart

\* C9: every visual note whose duration exceeds the sustain threshold has,
\* from its Spawn on and after every later Tick, a tail with
\* tailEnd - tailStart = (end - start) / TICK_RATE_MS.
C9_VisualTailKeepsLength ==
    \A i \in Indices(s.currentNotes) :
        LET note == s.currentNotes[i]
        IN  note.visual /\ note.end - note.start > SUSTAIN_THRESHOLD_MS
                => note.tail.defined /\ TailLengthMs(note) = note.end - note.start

\* A sustain note that is still visual hundreds of Ticks after its Spawn.
C9_Witness ==
    /\ Applied("Tick")
    /\ \E i \in Indices(s.currentNotes) :
           LET note == s.currentNotes[i]
           IN  /\ note.visual
               /\ note.tail.defined
               /\ note.position = BOTTOM_ROW - 1
               /\ TailLengthMs(note) = 1500

\* The indices of the note with the given id.
WithId(st, id) == {i \in Indices(st.currentNotes) : st.currentNotes[i].id = id}

\* Release(1) on the one-note sustain chart while the note is live.
ReleaseOnSustainChart ==
    chart = ChartSustain /\ Released(1) /\ WithId(prev, 1) # {}

\* C10 as stated: on the chart of one sustain note in column 1, Release(1)
\* at any step while the note is live sets tail.dead and lowers scoreGained
\* by 1 + 0.2 * floor(noteCount / 10).
C10_ReleaseAlwaysKillsTail ==
    ReleaseOnSustainChart =>
        /\ \A i \in WithId(prev, 1) : s.currentNotes[i].tail.dead
        /\ 5 * (prev.scoreGained - s.scoreGained) = 5 + (prev.noteCount \div 10)

\* C10 amended: Release(1) does so when the note is in column 1, already
\* hit (visual = false) and not yet dead; when the note is still visual,
\* already dead or in another column, Release(1) changes neither the notes
\* nor the score.
C10_ReleaseKillsPlayedTail ==
    ReleaseOnSustainChart =>
        \A i \in WithId(prev, 1) :
            LET note == prev.currentNotes[i]
            IN  IF note.column = 1 /\ ~note.visual /\ ~note.tail.dead
                THEN /\ s.currentNotes[i].tail.dead
                     /\ s.currentNotes[i].id = 1
                     /\ 5 * (prev.scoreGained - s.scoreGained)
                            = 5 + (prev.noteCount \div 10)
                ELSE /\ s.currentNotes = prev.currentNotes
                     /\ s.scoreGained = prev.scoreGained

\* The sustain is hit and then released early.
C10_Witness ==
    /\ ReleaseOnSustainChart
    /\ \E i \in WithId(prev, 1) :
           /\ ~prev.currentNotes[i].visual
           /\ ~prev.currentNotes[i].tail.dead
           /\ s.currentNotes[i].tail.dead
    /\ s.scoreGained < prev.scoreGained

\* A visual note stands one step above the bottom row after the physics
\* step: tick resets noteCount to bonusActive.
MissPending(st) ==
    \E i \in Indices(st.currentNotes) :
        st.currentNotes[i].visual
        /\ st.currentNotes[i].position + 1 = BOTTOM_ROW

\* The Tick drained the bonus pool and the combo by 50 and reset the counter.
Drained ==
    /\ s.bonusActive = prev.bonusActive - BONUS_DECAY_STEP
    /\ s.noteCount = prev.noteCount - BONUS_DECAY_STEP
    /\ s.tickInterval = 0

\* C11 as stated: while bonusActive > 0, the 285th Tick after the reset of
\* the decay counter (the Tick applied with tickInterval = 284) subtracts 50
\* from bonusActive and from noteCount and resets tickInterval; no other
\* Tick changes bonusActive.
C11_DrainOn285thTick ==
    Applied("Tick") =>
        /\ prev.bonusActive > 0 /\ prev.tickInterval = DecayTicks - 1 => Drained
        /\ ~(prev.bonusActive > 0 /\ prev.tickInterval = DecayTicks - 1)
               => s.bonusActive = prev.bonusActive

\* C11 amended: while bonusActive > 0 the decay counter counts 285 Ticks up
\* from 0 and the next Tick, the 286th, subtracts 50 from bonusActive, resets
\* tickInterval to 0 and leaves noteCount 50 below the value the physics
\* step gives it (the old noteCount, or the old bonusActive when a visual
\* note stands one step above the bottom row); no other Tick changes
\* bonusActive.
C11_DrainOn286thTick ==
    /\ s.tickInterval <= DecayTicks
    /\ Applied("Tick") =>
           IF prev.bonusActive > 0 /\ prev.tickInterval = DecayTicks
           THEN /\ s.bonusActive = prev.bonusActive - BONUS_DECAY_STEP
                /\ s.tickInterval = 0
                /\ s.noteCount = (IF MissPending(s)
                                  THEN prev.bonusActive
                                  ELSE prev.noteCount) - BONUS_DECAY_STEP
           ELSE /\ s.bonusActive = prev.bonusActive
                /\ s.tickInterval = IF prev.bonusActive > 0
                                    THEN prev.tickInterval + 1
                                    ELSE 0

\* The drain falls on a Tick that also resets the combo for a miss, with a
\* combo above the bonus pool.
C11_Witness ==
    /\ Applied("Tick")
    /\ prev.bonusActive > 0
    /\ prev.tickInterval = DecayTicks
    /\ MissPending(s)
    /\ prev.noteCount > prev.bonusActive
    /\ s.noteCount = prev.bonusActive - BONUS_DECAY_STEP

\* The chart row a live note was spawned from (ids number the rows).
ChartRow(note) == chart[note.id]

\* The notes of prev and s are paired by id.
SameNote(i, j) == prev.currentNotes[i].id = s.currentNotes[j].id

\* C12 as stated: a note in currentNotes has a tail exactly when its chart
\* duration exceeds the sustain threshold, and a live note never gains or
\* loses its tail.
C12_TailIffLongDuration ==
    /\ \A i \in Indices(s.currentNotes) :
           LET note == s.currentNotes[i]
           IN  HasTail(note) <=> note.end - note.start > SUSTAIN_THRESHOLD_MS
    /\ \A i \in Indices(prev.currentNotes), j \in Indices(s.currentNotes) :
           SameNote(i, j)
               => (HasTail(s.currentNotes[j]) <=> HasTail(prev.currentNotes[i]))

\* C12 amended: a note in currentNotes has a tail exactly when its chart row
\* is visual and its chart duration exceeds the sustain threshold (a long
\* background note has none), and a live note never gains or loses its tail.
C12_TailIffLongVisualRow ==
    /\ \A i \in Indices(s.currentNotes) :
           LET note == s.currentNotes[i]
           IN  HasTail(note)
                   <=> /\ ChartRow(note).visual
                       /\ note.end - note.start > SUSTAIN_THRESHOLD_MS
    /\ \A i \in Indices(prev.currentNotes), j \in Indices(s.currentNotes) :
           SameNote(i, j)
               => (HasTail(s.currentNotes[j]) <=> HasTail(prev.currentNotes[i]))

\* A sustain note keeps its tail after it was hit and released, while the
\* short notes around it have none.
C12_Witness ==
    /\ Applied("Tick")
    /\ \E i \in Indices(s.currentNotes) :
           LET note == s.currentNotes[i]
           IN  HasTail(note) /\ ChartRow(note).visual /\ ~note.visual
               /\ note.tail.dead /\ note.id \in seen.dead
    /\ \E i \in Indices(s.currentNotes) : ~HasTail(s.currentNotes[i])

\* C13: a note that was seen with visual = false in an earlier state is not
\* visual in any later state, and a consumed note stays consumed across each
\* single action.
C13_VisualNeverComesBack ==
    /\ \A j \in Indices(s.currentNotes) :
           s.currentNotes[j].id \in seen.consumed => ~s.currentNotes[j].visual
    /\ \A i \in Indices(prev.currentNotes), j \in Indices(s.currentNotes) :
           SameNote(i, j) /\ ~prev.currentNotes[i].visual
               => ~s.currentNotes[j].visual

\* In the hard version, a sustain note hit by a Press is still live and
\* consumed Ticks later.
C13_Witness ==
    /\ hardVersion
    /\ Applied("Tick")
    /\ \E j \in Indices(s.currentNotes) :
           LET note == s.currentNotes[j]
           IN  /\ note.id \in seen.consumed
               /\ ChartRow(note).visual
               /\ ~note.visual
               /\ HasTail(note)
               /\ ~note.tail.dead
               /\ note.tail.tailStart > 0

\* C14: a tail that was seen dead in an earlier state is dead in every
\* later state in which its note is live, and a dead tail stays dead across
\* each single action, Tick included.
C14_DeadNeverComesBack ==
    /\ \A j \in Indices(s.currentNotes) :
           s.currentNotes[j].id \in seen.dead
               => HasTail(s.currentNotes[j]) /\ s.currentNotes[j].tail.dead
    /\ \A i \in Indices(prev.currentNotes), j \in Indices(s.currentNotes) :
           SameNote(i, j) /\ HasTail(prev.currentNotes[i])
           /\ prev.currentNotes[i].tail.dead
               => s.currentNotes[j].tail.dead

\* A Tick moves on a tail that a Release killed while its head was still
\* above the bottom row.
C14_Witness ==
    /\ Applied("Tick")
    /\ \E i \in Indices(prev.currentNotes), j \in Indices(s.currentNotes) :
           /\ SameNote(i, j)
           /\ prev.currentNotes[i].id \in seen.dead
           /\ prev.currentNotes[i].tail.dead
           /\ s.currentNotes[j].tail.dead
           /\ s.currentNotes[j].tail.tailStart > prev.currentNotes[i].tail.tailStart
           /\ s.currentNotes[j].position < BOTTOM_ROW

\* The actions the scan folds.
ReducerOps == {"Tick", "Press", "Release", "Spawn", "Randomize", "EndOfChart"}

\* C15: no action is applied to a state with gameEnd: the first state with
\* gameEnd is the last state of the run.
C15_GameEndIsLastState ==
    act.op \in ReducerOps => ~prev.gameEnd

\* C16: while the game is paused the State is as the pause found it: no
\* Tick, Press, Release, Randomize, Spawn or EndOfChart is applied between
\* a pause and the following resume.
C16_NothingAppliedWhilePaused ==
    paused => act.op = "Pause" /\ s = prev

\* The rows of the chart come in ascending order of start.
AscendingChart ==
    \A i, j \in 1 .. Len(chart) : i < j => chart[i].start <= chart[j].start

\* The distinct start times of the chart, and the k-th smallest of them.
StartTimes == {chart[i].start : i \in 1 .. Len(chart)}

NthStart(k) ==
    CHOOSE x \in StartTimes : Cardinality({y \in StartTimes : y < x}) = k - 1

\* The rows of the chart that start at time x, in chart order.
RowsAt(x) ==
    LET At(note) == note.start = x
    IN  SelectSeq(chart, At)

\* C17: for a chart in ascending order of start, the batches emitted so far
\* are the rows of the first distinct start times, one batch per start time
\* in ascending order; the first batch came 0 ms after subscribing and batch
\* k + 1 came exactly start[k + 1] - start[k] ms after batch k; the batches
\* still to come make up the remaining start times, and the next one is
\* not overdue.
C17_OneBatchPerStartOnTime ==
    AscendingChart =>
        /\ Len(emitted) + Len(queue) = Cardinality(StartTimes)
        /\ \A k \in 1 .. Len(emitted) :
               /\ emitted[k].group = RowsAt(NthStart(k))
               /\ emitted[k].after = IF k = 1
                                     THEN 0
                                     ELSE NthStart(k) - NthStart(k - 1)
        /\ queue # <<>> =>
               /\ Head(queue).group = RowsAt(NthStart(Len(emitted) + 1))
               /\ waited + dueIn = Head(queue).delayIt

\* All four batches of a chart have been emitted, the first with two rows
\* and the last after a gap of 3500 ms.
C17_Witness ==
    /\ AscendingChart
    /\ queue = <<>>
    /\ Len(emitted) = 4
    /\ Len(emitted[1].group) = 2
    /\ emitted[3].after = 700
    /\ emitted[4].after = 3500
    /\ Applied("Tick")

\* Every batch of the chart has been emitted.
AllBatchesEmitted == Len(emitted) = Cardinality(StartTimes)

\* C18: EndOfChart is applied to a state that has not seen it before, when
\* every batch of the chart has been emitted; no Spawn is applied after it
\* and it never falls due again; once the last batch is out it is due, on a
\* live subscription, until it is applied, and a run only ends after it;
\* for an empty chart no batch is emitted and EndOfChart comes before any
\* other action.
C18_EndOfChartExactlyOnce ==
    /\ Applied("EndOfChart") => ~prev.allNotesProcessed /\ AllBatchesEmitted
    /\ Applied("Spawn") => ~prev.allNotesProcessed
    /\ s.allNotesProcessed => queue = <<>> /\ ~endPending
    /\ AllBatchesEmitted <=> (s.allNotesProcessed \/ endPending)
    /\ endPending => Running
    /\ ~Running => s.allNotesProcessed
    /\ chart = <<>> =>
           /\ emitted = <<>>
           /\ act.op \in ReducerOps => s.allNotesProcessed

\* EndOfChart is applied right after the last of four batches, with notes
\* of earlier batches played and gone.
C18_Witness ==
    /\ Applied("EndOfChart")
    /\ Len(emitted) = 4
    /\ s.scoreGained > 0
    /\ Len(s.currentNotes) = 1

\* The values main sets up for a run of the chart.
FreshRun ==
    /\ s = initialState
    /\ queue = delayedGroupNotes(scheduleVisualNotes(chart), <<>>)
    /\ emitted = <<>>
    /\ tickDue = TICK_RATE_MS
    /\ ~paused

\* C19: once the restart button has been pressed no run is subscribed any
\* more, so that no action of it is applied again, and the run started next
\* begins from initialState, with no note in currentNotes, RIPNotes or
\* playableNotes, and with no run beside it.
C19_RestartCancelsAndResets ==
    /\ act.op = "RestartPress" => ~Running /\ older = <<>>
    /\ act.op \in {"Start", "Load", "LoadError"} =>
           /\ older = <<>>
           /\ FreshRun
           /\ s.scoreGained = 0 /\ s.noteCount = 0 /\ s.bonusActive = 0
           /\ s.tickInterval = 0
           /\ s.currentNotes = <<>> /\ s.RIPNotes = <<>>
           /\ s.playableNotes = <<>>
           /\ ~s.gameEnd /\ ~s.allNotesProcessed

\* The last step was a physics step that took the note from one position
\* above the bottom row onto it.
ReachedBottomNow(note) ==
    /\ act.op \in {"Tick", "Spawn", "EndOfChart"}
    /\ note.position = BOTTOM_ROW
    /\ \E i \in Indices(prev.currentNotes) :
           /\ prev.currentNotes[i].id = note.id
           /\ prev.currentNotes[i].position = BOTTOM_ROW - 1

\* C20: every chart note in playableNotes reached the bottom row in the
\* step that produced the state, and playableNotes holds at most one
\* synthetic note, made by the Press that produced the state.
C20_PlayableNotesAreOfThisStep ==
    LET synthetic == {k \in Indices(s.playableNotes) :
                         IsSynthetic(s.playableNotes[k])}
    IN  /\ \A k \in Indices(s.playableNotes) \ synthetic :
               ReachedBottomNow(s.playableNotes[k])
        /\ Cardinality(synthetic) <= 1
        /\ synthetic # {} => Applied("Press")

\* C21: Press, Release and Randomize leave gameEnd and allNotesProcessed as
\* they were; the state a Spawn produces never has gameEnd; so gameEnd goes
\* from false to true only in a Tick or an EndOfChart step.
C21_GameEndOnlyByTickOrEndOfChart ==
    /\ act.op \in {"Press", "Release", "Randomize"}
           => /\ s.gameEnd = prev.gameEnd
              /\ s.allNotesProcessed = prev.allNotesProcessed
    /\ Applied("Spawn") => ~s.gameEnd
    /\ act.op \in ReducerOps /\ ~prev.gameEnd /\ s.gameEnd
           => act.op \in {"Tick", "EndOfChart"}

\* A Press after the end of the chart, when the last note has gone and
\* nothing is left pending removal: the game has not ended yet.
C21_Witness ==
    /\ Applied("Press")
    /\ prev.allNotesProcessed
    /\ s.currentNotes = <<>>
    /\ s.RIPNotes = <<>>
    /\ ~s.gameEnd

\* C22: once EndOfChart has been applied, with Ticks kept being applied
\* under any interleaving of Press, Release and Randomize, a state with
\* gameEnd = true and no note left in currentNotes is eventually reached.
C22_EndOfChartLeadsToGameEnd ==
    Applied("EndOfChart") ~> (s.gameEnd /\ s.currentNotes = <<>>)

\* The game has ended by a Tick in the hard version, after the sustain note
\* was hit or released on its way down.
C22_Witness ==
    /\ hardVersion
    /\ Applied("Tick")
    /\ s.gameEnd
    /\ s.allNotesProcessed
    /\ s.currentNotes = <<>>
    /\ s.scoreGained # 0
    /\ inputs = MaxInputs

\* C23: Press(c) with special visual notes of column c in the hit window
\* adds exactly 100 to bonusActive and exactly 100 to noteCount for each of
\* them (and 1 to noteCount for each non-special note hit with them), adds
\* no score for them (scoreGained is unchanged when only special notes are
\* hit) and sets their visual flag to false, all else of the note kept.
C23_SpecialHitGrantsBonusOnly ==
    \A c \in Columns :
        Pressed(c) /\ HitIndices(prev, c, TRUE) # {}
            => /\ s.bonusActive = prev.bonusActive
                      + SPECIAL_GAIN * Cardinality(HitIndices(prev, c, TRUE))
               /\ s.noteCount = prev.noteCount
                      + SPECIAL_GAIN * Cardinality(HitIndices(prev, c, TRUE))
                      + Cardinality(HitIndices(prev, c, FALSE))
               /\ HitIndices(prev, c, FALSE) = {}
                      => s.scoreGained = prev.scoreGained
               /\ \A i \in HitIndices(prev, c, TRUE) :
                      s.currentNotes[i]
                          = [prev.currentNotes[i] EXCEPT !.visual = FALSE]

\* A Press hits a special note and nothing else, while a non-special note
\* of the same column is one step short of the hit window.
C23_Witness ==
    \E c \in Columns :
        /\ Pressed(c)
        /\ Cardinality(HitIndices(prev, c, TRUE)) = 1
        /\ HitIndices(prev, c, FALSE) = {}
        /\ \E j \in Indices(s.currentNotes) :
               /\ s.currentNotes[j].visual
               /\ s.currentNotes[j].column = c
               /\ s.currentNotes[j].position = BOTTOM_ROW - POSITION_THRESHOLD - 1
        /\ s.bonusActive = SPECIAL_GAIN
        /\ s.noteCount = SPECIAL_GAIN

\* The notes of st that Release(c) ends: with a tail, in column c, consumed
\* and not yet dead.
ReleasedIndices(st, c) ==
    {i \in Indices(st.currentNotes) :
        LET note == st.currentNotes[i]
        IN  HasTail(note) /\ note.column = c /\ ~note.visual /\ ~note.tail.dead}

\* C24: Release(c) sets tail.dead on every note that has a tail, is in
\* column c, is non-visual and not yet dead; it lowers scoreGained by exactly
\* 1 + 0.2 * floor(noteCount / 10) for each such note (compared in fifths);
\* and when there is such a note it sets noteCount to bonusActive.
C24_ReleasePenaltyPerTail ==
    \A c \in Columns :
        Released(c) =>
            /\ \A i \in ReleasedIndices(prev, c) :
                   /\ s.currentNotes[i].id = prev.currentNotes[i].id
                   /\ s.currentNotes[i].tail.dead
            /\ 5 * (prev.scoreGained - s.scoreGained)
                   = Cardinality(ReleasedIndices(prev, c))
                     * (5 + FloorTenth(prev.noteCount))
            /\ ReleasedIndices(prev, c) # {} => s.noteCount = prev.bonusActive

\* C25: Press(c) keeps the number and order of notes; every note that is
\* visual, in column c and at BOTTOM_ROW - POSITION_THRESHOLD <= position <
\* BOTTOM_ROW becomes non-visual with every other field kept; every other
\* note (another column, outside the window, already non-visual) is exactly
\* as it was.
C25_PressConsumesExactlyTheWindow ==
    \A c \in Columns :
        Pressed(c) =>
            /\ Len(s.currentNotes) = Len(prev.currentNotes)
            /\ \A i \in Indices(prev.currentNotes) :
                   LET before == prev.currentNotes[i]
                       after == s.currentNotes[i]
                   IN  IF i \in HitIndices(prev, c, TRUE)
                                \cup HitIndices(prev, c, FALSE)
                       THEN /\ ~after.visual
                            /\ [after EXCEPT !.visual = TRUE] = before
                       ELSE after = before

\* A Press consumes the note in the hit window while a visual note of the
\* same column above the window and a note of another column stay as they
\* were.
C25_Witness ==
    \E c \in Columns :
        /\ Pressed(c)
        /\ HitIndices(prev, c, FALSE) # {}
        /\ \E j \in Indices(prev.currentNotes) :
               /\ prev.currentNotes[j].visual
               /\ prev.currentNotes[j].column = c
               /\ prev.currentNotes[j].position < BOTTOM_ROW - POSITION_THRESHOLD
               /\ s.currentNotes[j] = prev.currentNotes[j]
        /\ \E k \in Indices(prev.currentNotes) :
               /\ prev.currentNotes[k].column # c
               /\ prev.currentNotes[k].position >= BOTTOM_ROW - POSITION_THRESHOLD

\* The batch of the last Spawn.
LastBatch == emitted[Len(emitted)].group

\* C26: Press, Spawn and Randomize each advance hash exactly once, whatever
\* the number of notes matched, spawned or moved; Tick, Release and
\* EndOfChart leave hash as it was; and the state after an action is the
\* value of that action's apply on the state before, so equal action
\* sequences from initialState give equal state sequences.
C26_HashAdvancesOncePerDraw ==
    /\ act.op \in {"Press", "Spawn", "Randomize"} => s.hash = RNG_hash(prev.hash)
    /\ act.op \in {"Tick", "Release", "EndOfChart"} => s.hash = prev.hash
    /\ act.op = "Init" => s = initialState
    /\ Applied("Tick") => s = TickGame(prev)
    /\ Applied("EndOfChart") => s = GameEnd(prev)
    /\ Applied("Randomize") => s = RandomiseNotes(prev)
    /\ Applied("Spawn") => s = NextNote(LastBatch, prev)
    /\ \A c \in Columns :
           /\ Pressed(c) => s = ButtonClick(c, prev)
           /\ Released(c) => s = ButtonRelease(c, prev)

\* A Spawn of a batch of several notes, after a Press has advanced the seed.
C26_Witness ==
    /\ Applied("Spawn")
    /\ Len(LastBatch) >= 2
    /\ prev.hash # initialState.hash
    /\ s.hash = RNG_hash(prev.hash)
    /\ s.hash # prev.hash

\* The last action ran the physics step: Tick, and Spawn and EndOfChart,
\* which end with the same step.
PhysicsStep == act.op \in {"Tick", "Spawn", "EndOfChart"}

\* The indices of notes with the given id in a sequence of notes.
IdIndices(notes, id) == {k \in Indices(notes) : notes[k].id = id}

\* C27: a live note without a tail is above the bottom row.  A Tick that
\* moves it onto the row removes it from currentNotes; if it was visual it
\* is not put in playableNotes and scoreGained is unchanged; if it was
\* non-visual it is in playableNotes of the resulting state exactly once, at
\* the bottom row.  A Tick that leaves it above the row keeps it in
\* currentNotes once, its position advanced by one increment and nothing
\* else changed, and does not put it in playableNotes.
C27_TaillessNoteAtBottomRow ==
    /\ \A j \in Indices(s.currentNotes) :
           ~HasTail(s.currentNotes[j]) => s.currentNotes[j].position < BOTTOM_ROW
    /\ Applied("Tick") =>
           \A i \in Indices(prev.currentNotes) :
               LET note == prev.currentNotes[i]
                   moved == [note EXCEPT
                               !.position = note.position + TICK_UNIT_INCREMENT]
                   live == IdIndices(s.currentNotes, note.id)
                   played == IdIndices(s.playableNotes, note.id)
               IN  ~HasTail(note) =>
                       IF moved.position = BOTTOM_ROW
                       THEN /\ live = {}
                            /\ note.visual => /\ played = {}
                                              /\ s.scoreGained = prev.scoreGained
                            /\ ~note.visual => /\ Cardinality(played) = 1
                                               /\ \A k \in played :
                                                      s.playableNotes[k] = moved
                       ELSE /\ Cardinality(live) = 1
                            /\ \A j \in live : s.currentNotes[j] = moved
                            /\ played = {}

\* One Tick takes a note that was hit and a background note onto the bottom
\* row, where both are played, while a later note is still on its way.
C27_Witness ==
    /\ Applied("Tick")
    /\ \E i, j \in Indices(prev.currentNotes) :
           /\ ~HasTail(prev.currentNotes[i]) /\ ~HasTail(prev.currentNotes[j])
           /\ prev.currentNotes[i].position = BOTTOM_ROW - 1
           /\ prev.currentNotes[j].position = BOTTOM_ROW - 1
           /\ ChartRow(prev.currentNotes[i]).visual /\ ~prev.currentNotes[i].visual
           /\ ~ChartRow(prev.currentNotes[j]).visual
    /\ Len(s.playableNotes) = 2
    /\ s.currentNotes # <<>>

\* The row in the units of the stored tail extents.
RowMs == BOTTOM_ROW * TICK_RATE_MS

\* C28: when a Tick moves the tailStart of an already non-visual sustain
\* note onto the bottom row, the note's tail has dead = true in the resulting
\* state: in currentNotes, or in RIPNotes if the step removed the note.
C28_ExpiredTailIsMarkedDead ==
    Applied("Tick") =>
        \A i \in Indices(prev.currentNotes) :
            LET note == prev.currentNotes[i]
                live == IdIndices(s.currentNotes, note.id)
                gone == IdIndices(s.RIPNotes, note.id)
                reaches ==
                    /\ HasTail(note)
                    /\ ~note.visual
                    /\ note.tail.tailStart < RowMs
                    /\ note.tail.tailStart + TICK_UNIT_INCREMENT * TICK_RATE_MS
                           >= RowMs
            IN  reaches => IF live # {}
                           THEN \A j \in live : s.currentNotes[j].tail.dead
                           ELSE /\ gone # {}
                                /\ \A j \in gone : s.RIPNotes[j].tail.dead

\* C29: a still-visual sustain note whose head a physics step takes onto the
\* bottom row stays in currentNotes, at the row, with visual = false and
\* tail.dead = true and its tailStart above the row, and is not put in
\* playableNotes; from then on it stays non-visual and dead in every state
\* in which it is live, no state holds it in playableNotes, and the step
\* that takes its tailStart to the row removes it.
C29_MissedSustainDecaysSilently ==
    /\ PhysicsStep =>
           \A i \in Indices(prev.currentNotes) :
               LET note == prev.currentNotes[i]
                   live == IdIndices(s.currentNotes, note.id)
               IN  /\ (HasTail(note) /\ note.visual
                       /\ note.position + TICK_UNIT_INCREMENT = BOTTOM_ROW)
                          => /\ Cardinality(live) = 1
                             /\ \A j \in live :
                                    /\ s.currentNotes[j].position = BOTTOM_ROW
                                    /\ s.currentNotes[j].tail.tailEnd = RowMs
                             /\ note.id \in seen.missed
                   /\ (note.id \in seen.missed /\ ~note.visual
                       /\ note.tail.tailStart + TICK_UNIT_INCREMENT * TICK_RATE_MS
                              >= RowMs)
                          => live = {}
    /\ \A j \in Indices(s.currentNotes) :
           LET note == s.currentNotes[j]
           IN  note.id \in seen.missed
                   => /\ ~note.visual
                      /\ HasTail(note) /\ note.tail.dead
                      /\ note.tail.tailStart < RowMs
                      /\ note.position >= BOTTOM_ROW
    /\ \A k \in Indices(s.playableNotes) :
           ~IsSynthetic(s.playableNotes[k])
               => s.playableNotes[k].id \notin seen.missed

\* The Tick that removes a missed sustain note, its tailStart having got to
\* the row, after keys were pressed in vain.
C29_Witness ==
    /\ Applied("Tick")
    /\ inputs = MaxInputs
    /\ \E i \in Indices(prev.currentNotes) :
           /\ prev.currentNotes[i].id \in seen.missed
           /\ prev.currentNotes[i].tail.dead
           /\ prev.currentNotes[i].position > BOTTOM_ROW + 200
           /\ IdIndices(s.currentNotes, prev.currentNotes[i].id) = {}
    /\ s.playableNotes = <<>>

\* Five times the combo multiplier 1 + 0.2 * floor(noteCount / 10) of st.
MultiplierFifths(st) == 5 + FloorTenth(st.noteCount)

\* C30: in every state 0 <= bonusActive <= noteCount, bonusActive is a
\* multiple of 50, and the combo multiplier derived from noteCount is at
\* least 1.
C30_BonusBelowCombo ==
    /\ 0 <= s.bonusActive
    /\ s.bonusActive <= s.noteCount
    /\ s.bonusActive % BONUS_DECAY_STEP = 0
    /\ MultiplierFifths(s) >= 5

\* A Tick drains half of the bonus pool while the combo stands above it.
C30_Witness ==
    /\ Applied("Tick")
    /\ prev.bonusActive = SPECIAL_GAIN
    /\ s.bonusActive = SPECIAL_GAIN - BONUS_DECAY_STEP
    /\ s.noteCount > s.bonusActive

\* C31: for every action, every note id of currentNotes before the action is
\* in RIPNotes after it; in every state the ids of currentNotes are among
\* the ids of RIPNotes; so after each render the canvas holds the elements
\* of the drawn notes of the current state, once each, and nothing of an
\* earlier state.
C31_RIPNotesCoverPreviousNotes ==
    /\ act.op \in ReducerOps => NoteIds(prev.currentNotes) \subseteq NoteIds(s.RIPNotes)
    /\ NoteIds(s.currentNotes) \subseteq NoteIds(s.RIPNotes)
    /\ canvas = DrawnIds(s)

\* A Randomize, which leaves RIPNotes as it was, moves a drawn note to
\* another column, and the canvas holds that note once.
C31_Witness ==
    /\ Applied("Randomize")
    /\ canvas # <<>>
    /\ canvas = DrawnIds(s)
    /\ \E i \in Indices(prev.currentNotes) :
           /\ prev.currentNotes[i].visual
           /\ s.currentNotes[i].column # prev.currentNotes[i].column
           /\ Cardinality({k \in 1 .. Len(canvas) :
                              canvas[k] = s.currentNotes[i].id}) = 1
           /\ prev.currentNotes[i].id \in NoteIds(s.RIPNotes)

\* The indices of the notes of st that are visual and one increment above
\* the bottom row.
PendingIndices(st) ==
    {i \in Indices(st.currentNotes) :
        /\ st.currentNotes[i].visual
        /\ st.currentNotes[i].position + 1 = BOTTOM_ROW}

\* The Tick applied to prev is one that drains the bonus pool.
DrainTick ==
    /\ prev.bonusActive > 0
    /\ prev.tickInterval # 0
    /\ prev.tickInterval % DecayTicks = 0

\* What a Tick does to noteCount: equal to bonusActive after the step when a
\* visual note is one increment above the bottom row after the step;
\* otherwise unchanged, or 50 lower when the Tick drains the bonus pool.
TickResetsCombo ==
    Applied("Tick") =>
        IF PendingIndices(s) # {}
        THEN s.noteCount = s.bonusActive
        ELSE s.noteCount = prev.noteCount
                           - (IF DrainTick THEN BONUS_DECAY_STEP ELSE 0)

\* A note one increment above the bottom row is hit by a Press in its column.
PendingCanBeHit ==
    \A i \in PendingIndices(s) :
        InHitWindow(s.currentNotes[i].column, s.currentNotes[i])

\* C32 as stated: a Tick resets noteCount to bonusActive exactly when, after
\* the step, a visual note is one increment above the bottom row; without
\* such a note and without a drain noteCount is unchanged; such a note can
\* still be hit by a Press, and the next Tick drops it from currentNotes.
C32_ResetOneTickBeforeDrop ==
    /\ TickResetsCombo
    /\ PendingCanBeHit
    /\ Applied("Tick") =>
           \A i \in PendingIndices(prev) :
               IdIndices(s.currentNotes, prev.currentNotes[i].id) = {}

\* C32 amended: the same, except that the next Tick drops the note only if
\* it has no tail; a sustain note stays in currentNotes, at the bottom row
\* and no longer visual.
C32_ResetOneTickBeforeMiss ==
    /\ TickResetsCombo
    /\ PendingCanBeHit
    /\ Applied("Tick") =>
           \A i \in PendingIndices(prev) :
               LET note == prev.currentNotes[i]
                   live == IdIndices(s.currentNotes, note.id)
               IN  IF HasTail(note)
                   THEN /\ Cardinality(live) = 1
                        /\ \A j \in live :
                               /\ ~s.currentNotes[j].visual
                               /\ s.currentNotes[j].position = BOTTOM_ROW
                   ELSE live = {}

\* A Tick takes a sustain note to one increment above the bottom row and
\* resets a combo that stood above the bonus pool.
C32_Witness ==
    /\ Applied("Tick")
    /\ prev.noteCount > prev.bonusActive
    /\ s.noteCount = s.bonusActive
    /\ \E i \in PendingIndices(s) : HasTail(s.currentNotes[i])

\* C33: scoreGained is an integer greater than or equal to 0 in every
\* state.
C33_ScoreNeverNegative ==
    /\ s.scoreGained \in Int
    /\ s.scoreGained >= 0

====
